---- MODULE Spec2Model ----
(***************************************************************************)
(* A model of live_mpl: the frame index bookkeeping of LiveBase, the video *)
(* export driver (animate), the debounced Window._update_tabs, and the     *)
(* geometry of the LiveStackBar and LiveComet adapters.                    *)
(*                                                                         *)
(* Each component has its own specification over its own variables; the    *)
(* variables of the other components keep their initial values.            *)
(***************************************************************************)
EXTENDS Integers, Sequences, FiniteSets, TLC

(***************************************************************************)
(* Bounds of the model.                                                    *)
(***************************************************************************)
\* largest len_data of an adapter
MaxLen == 3
\* largest magnitude of a step argument
MaxStep == 3
\* indices travel at most this far from 0 (a negative step is not clamped)
IdxCap == 5
\* the length of a run of calls after a boundary jump is counted up to this
MaxRun == 3

Min(a, b) == IF a < b THEN a ELSE b
Max(a, b) == IF a > b THEN a ELSE b

(***************************************************************************)
(* LiveBase: the frame index of one adapter.                               *)
(***************************************************************************)
VARIABLES
    len_data,        \* LiveBase.len_data: length of the iterable data
    current_idx,     \* LiveBase._idx
    prev_idx,        \* history: _idx before the last call
    last_op,         \* history: the last method called
    last_step,       \* history: the step argument of the last call (0 for jumps)
    steps_nonneg,    \* history: every step argument so far was >= 0
    boundary_run,    \* history: "end"/"begin" while only _increment(k>0) /
                     \* _decrement(k>0) calls followed a _jump_to_end /
                     \* _jump_to_beginning
    run_len          \* history: number of calls in that run (up to MaxRun)

baseVars == <<len_data, current_idx, prev_idx, last_op, last_step,
              steps_nonneg, boundary_run, run_len>>

VARIABLES
    ani_state,      \* "idle", "running", "done" or "failed" (exception raised)
    n_plots,        \* len(plots)
    num_frames,     \* animate's num_frames argument
    keeper_idx,     \* _ProgressKeeper._idx
    bound_idx,      \* the idx keyword bound in the functools.partial
    frame_no,       \* FuncAnimation: the frame number func is called with next
    drawn,          \* take_step ran for frame_no, the frame is not grabbed yet
    upd_arg,        \* per plot: the idx its last _update_plot call was given
    captured,       \* the grabbed frames: per frame, upd_arg at that time
    completed,      \* the `completed` last reported to the progress bar
    ani_lens,       \* per plot: the number of frames of its data
    ani_exc,        \* the exception that left animate, "none" otherwise
    now_state       \* animate_now: "not_called", then "running" (it returned
                    \* the animation) or "raised"

aniVars == <<ani_state, n_plots, num_frames, keeper_idx, bound_idx, frame_no,
             drawn, upd_arg, captured, completed, ani_lens, ani_exc, now_state>>

VARIABLES
    win_len,        \* Window.len_data
    win_idx,        \* Window._idx
    win_step,       \* Window._step
    update_lock,    \* Window._update_lock is held
    n_tabs,         \* len(Window._tabs)
    tab_idx,        \* per tab: the index its last _update_all call was given
    calls,          \* the _update_tabs calls in progress on the GTK thread,
                    \* outermost first; the last one is the one running
    last_event,     \* history: the last event handled
    last_return,    \* history: what the last finished _update_tabs call did
    current_tab_idx \* Window._current_tab_idx

winVars == <<win_len, win_idx, win_step, update_lock, n_tabs, tab_idx, calls,
             last_event, last_return, current_tab_idx>>

VARIABLES
    sb_y_data,      \* LiveStackBar._y_data: frames of bars of stacked values,
                    \* sb_y_data[i][b][s] is _y_data[i-1, b-1, s-1]
    sb_idx,         \* LiveStackBar._idx
    sb_patches,     \* _bar_cts: per stack s and bar b the rectangle's
                    \* height and y (its baseline)
    sb_last,        \* history: "create" after construction, "update" after
                    \* an update of the artists
    sb_max_heights  \* LiveStackBar._max_heights

sbVars == <<sb_y_data, sb_idx, sb_patches, sb_last, sb_max_heights>>

VARIABLES
    cm_x,           \* LiveComet._x
    cm_y,           \* LiveComet._y
    cm_idx,         \* LiveComet._idx
    cm_head,        \* the data of the _head artist: <<x, y>>
    cm_tail,        \* the data of the _tail artist: <<xs, ys>>
    cm_last         \* history: "create" after construction, "update" after
                    \* an update of the artists

cmVars == <<cm_x, cm_y, cm_idx, cm_head, cm_tail, cm_last>>

VARIABLES
    ad_kind,        \* the adapter being constructed: "line", "comet",
                    \* "rectangle", "fancy_bbox", "vline" or "vehicle"
    ad_x,           \* the shape of the x argument (x_data / x_center)
    ad_y,           \* the shape of the y argument (y_data / y_center)
    ad_angle,       \* the shape of the angle_deg argument
    ad_steering,    \* the shape of the steering_deg argument
    ad_iter_arg,    \* the iter_axis argument of LiveLine
    ad_state,       \* "new" before the constructor ran, then "built", or
                    \* "raised" when it left with an exception
    ad_exc,         \* the exception the constructor raised
    ad_artists,     \* number of drawables created and added to the axes
    ln_x,           \* LiveLine._x
    ln_y,           \* LiveLine._y
    ln_iter_axis,   \* LiveLine.iter_axis after __post_init__
    ln_line,        \* the data of LiveLine._line: <<xdata, ydata>>
    ln_frame,       \* history: the frame index of the last update request
    ln_err          \* history: the exception of the last update request

adVars == <<ad_kind, ad_x, ad_y, ad_angle, ad_steering, ad_iter_arg, ad_state,
            ad_exc, ad_artists, ln_x, ln_y, ln_iter_axis, ln_line, ln_frame,
            ln_err>>

VARIABLES
    st_epochs,        \* num_epochs: u_data.shape[-1]
    st_n_arrows,      \* per frame: how many arrows calc_streamplot makes for it
    st_workers,       \* calc_streamlines' num_workers argument
    st_calc,          \* calc_streamlines: "idle", "running" or "done"
    st_next_task,     \* Pool.imap: the next frame to hand to a worker
    st_busy,          \* per worker: the frame it computes, or NoTask
    st_ready,         \* results the workers sent back, not yet yielded
    st_results,       \* the deque `results`
    st_streamlines,   \* LiveStreamlines._streamlines
    st_streamarrows,  \* LiveStreamlines._streamarrows
    st_current_lines, \* LiveStreamlines._current_lines, or Unset
    st_ax,            \* the line collections and arrows on the axes
    st_warnings,      \* history: warnings issued so far (up to MaxWarn)
    st_req,           \* history: the idx last read from the cache, or NoIdx
    st_upd,           \* history: how the last update ended
    st_prev_lines,    \* history: _current_lines before the last update that
                      \* changed the artists
    st_overtaken,     \* history: a worker sent its result back while an
                      \* earlier frame was still being computed
    st_file,          \* the dict written to the pickle file, or NoFile
    st_loaded         \* the outcome of load_from_pickle on the file as it
                      \* is now, NotLoaded when it was not called

stVars == <<st_epochs, st_n_arrows, st_workers, st_calc, st_next_task, st_busy,
            st_ready, st_results, st_streamlines, st_streamarrows,
            st_current_lines, st_ax, st_warnings, st_req, st_upd,
            st_prev_lines, st_overtaken, st_file, st_loaded>>

VARIABLES
    tb_lens,        \* per registered plot of the Tab: its len_data
    tb_idx,         \* per registered plot of the Tab: its _idx
    tb_log,         \* history: the plots whose _update_plot returned in the
                    \* last Tab action, in the order of the calls
    tb_exc,         \* history: the exception that ended the last Tab action,
                    \* "none" when it returned
    tb_together     \* history: the last Tab action had a step >= 0 and found
                    \* plots of equal len_data at one index of their data

tbVars == <<tb_lens, tb_idx, tb_log, tb_exc, tb_together>>

VARIABLES
    ar_kind,        \* the adapter: "line", "comet", "rectangle", "fancy_bbox",
                    \* "circle", "image", "quiver", "stackbar" or "vline"
    ar_len,         \* the number of frames of its data
    ar_bars,        \* LiveStackBar.num_cols (1 for the other adapters)
    ar_stacks,      \* LiveStackBar.num_stacks (1 for the other adapters)
    ar_state,       \* "new" before the constructor ran, then "built"
    ar_fields,      \* the adapter's artist fields: per field the object it
                    \* refers to
    ar_heap,        \* the drawable objects there are: per object the frame
                    \* its setters were last called with
    ar_built,       \* history: what `artists` returned when the constructor
                    \* had returned
    ar_err          \* history: the exception of the last update request

arVars == <<ar_kind, ar_len, ar_bars, ar_stacks, ar_state, ar_fields, ar_heap,
            ar_built, ar_err>>

VARIABLES
    vh_x,           \* create_live_vehicle: the shape of x_center
    vh_y,           \* the shape of y_center
    vh_psi,         \* angle_deg: its shape and, flattened, its values
    vh_delta,       \* steering_deg: its shape and, flattened, its values
    vh_image,       \* config.image_path is not None
    vh_state,       \* "new" before the call, then "returned" or "raised"
    vh_exc,         \* the exception that left the call
    vh_created,     \* the adapters constructed so far, in order
    vh_plots        \* the list returned, <<>> when none was

vhVars == <<vh_x, vh_y, vh_psi, vh_delta, vh_image, vh_state, vh_exc,
            vh_created, vh_plots>>

VARIABLES
    lm_data,        \* what _get_data_axis_limits returns: xl, xr, yb, yt
    lm_ax,          \* the limits of the axes: xl, xr (get_xlim), yb, yt
                    \* (get_ylim)
    lm_prev,        \* history: the limits of the axes before the last call of
                    \* update_axis_limits
    lm_scale        \* history: the scale_factor of the last call, 0 before
                    \* the first

lmVars == <<lm_data, lm_ax, lm_prev, lm_scale>>

\* what the actions of one component leave alone
notBase == <<aniVars, winVars, sbVars, cmVars, adVars, stVars, tbVars, arVars, vhVars, lmVars>>
notAni == <<baseVars, winVars, sbVars, cmVars, adVars, stVars, tbVars, arVars, vhVars, lmVars>>
notWin == <<baseVars, aniVars, sbVars, cmVars, adVars, stVars, tbVars, arVars, vhVars, lmVars>>
notSb == <<baseVars, aniVars, winVars, cmVars, adVars, stVars, tbVars, arVars, vhVars, lmVars>>
notCm == <<baseVars, aniVars, winVars, sbVars, adVars, stVars, tbVars, arVars, vhVars, lmVars>>
notAd == <<baseVars, aniVars, winVars, sbVars, cmVars, stVars, tbVars, arVars, vhVars, lmVars>>
notSt == <<baseVars, aniVars, winVars, sbVars, cmVars, adVars, tbVars, arVars, vhVars, lmVars>>
notTab == <<baseVars, aniVars, winVars, sbVars, cmVars, adVars, stVars, arVars, vhVars, lmVars>>
notAr == <<baseVars, aniVars, winVars, sbVars, cmVars, adVars, stVars, tbVars, vhVars, lmVars>>
notVh == <<baseVars, aniVars, winVars, sbVars, cmVars, adVars, stVars, tbVars, arVars, lmVars>>
notLm == <<baseVars, aniVars, winVars, sbVars, cmVars, adVars, stVars, tbVars, arVars, vhVars>>

vars == <<baseVars, aniVars, winVars, sbVars, cmVars, adVars, stVars, tbVars, arVars, vhVars, lmVars>>

Steps == (-MaxStep)..MaxStep

\* LiveBase.max_idx
LiveBase_max_idx_off_by_one(T) == IF T < 1 THEN 0 ELSE T
LiveBase_max_idx(T) == IF T < 1 THEN 0 ELSE T - 1

\* LiveBase._increment: the new value of _idx
LiveBase_increment_no_clamp(idx, step, T) == idx + step
LiveBase_increment_clamp_len(idx, step, T) ==
    LET i == idx + step IN IF i > LiveBase_max_idx(T) THEN T ELSE i
LiveBase_increment(idx, step, T) ==
    LET i == idx + step IN
    IF i > LiveBase_max_idx(T) THEN LiveBase_max_idx(T) ELSE i

\* LiveBase._decrement: the new value of _idx
LiveBase_decrement_no_clamp(idx, step) == idx - step
LiveBase_decrement_refuse(idx, step) ==
    LET i == idx - step IN IF i < 0 THEN idx ELSE i
LiveBase_decrement(idx, step) ==
    LET i == idx - step IN IF i < 0 THEN 0 ELSE i

\* LiveBase._jump_to_end: the new value of _idx
LiveBase_jump_to_end_len(T) == T
LiveBase_jump_to_end(T) == LiveBase_max_idx(T)

\* LiveBase._jump_to_beginning: the new value of _idx
LiveBase_jump_to_beginning_keep(idx) == IF idx > 0 THEN 1 ELSE 0
LiveBase_jump_to_beginning(idx) == 0

BaseInit ==
    /\ len_data \in 1..MaxLen
    /\ current_idx = 0
    /\ prev_idx = 0
    /\ last_op = "init"
    /\ last_step = 0
    /\ steps_nonneg = TRUE
    /\ boundary_run = "none"
    /\ run_len = 0

InCap(i) == i \in (-IdxCap)..IdxCap

Increment(step) ==
    /\ InCap(LiveBase_increment(current_idx, step, len_data))
    /\ current_idx' = LiveBase_increment(current_idx, step, len_data)
    /\ prev_idx' = current_idx
    /\ last_op' = "increment"
    /\ last_step' = step
    /\ steps_nonneg' = (steps_nonneg /\ step >= 0)
    /\ boundary_run' = IF boundary_run = "end" /\ step > 0 THEN "end" ELSE "none"
    /\ run_len' = IF boundary_run = "end" /\ step > 0
                  THEN Min(run_len + 1, MaxRun) ELSE 0
    /\ UNCHANGED len_data
    /\ UNCHANGED notBase

Decrement(step) ==
    /\ InCap(LiveBase_decrement(current_idx, step))
    /\ current_idx' = LiveBase_decrement(current_idx, step)
    /\ prev_idx' = current_idx
    /\ last_op' = "decrement"
    /\ last_step' = step
    /\ steps_nonneg' = (steps_nonneg /\ step >= 0)
    /\ boundary_run' = IF boundary_run = "begin" /\ step > 0 THEN "begin" ELSE "none"
    /\ run_len' = IF boundary_run = "begin" /\ step > 0
                  THEN Min(run_len + 1, MaxRun) ELSE 0
    /\ UNCHANGED len_data
    /\ UNCHANGED notBase

JumpToEnd ==
    /\ current_idx' = LiveBase_jump_to_end(len_data)
    /\ prev_idx' = current_idx
    /\ last_op' = "jump_to_end"
    /\ last_step' = 0
    /\ boundary_run' = "end"
    /\ run_len' = 0
    /\ UNCHANGED <<len_data, steps_nonneg>>
    /\ UNCHANGED notBase

JumpToBeginning ==
    /\ current_idx' = LiveBase_jump_to_beginning(current_idx)
    /\ prev_idx' = current_idx
    /\ last_op' = "jump_to_beginning"
    /\ last_step' = 0
    /\ boundary_run' = "begin"
    /\ run_len' = 0
    /\ UNCHANGED <<len_data, steps_nonneg>>
    /\ UNCHANGED notBase

BaseNext ==
    \/ \E step \in Steps : Increment(step)
    \/ \E step \in Steps : Decrement(step)
    \/ JumpToEnd
    \/ JumpToBeginning

(***************************************************************************)
(* Claims about LiveBase (checked under SpecBase).                         *)
(***************************************************************************)
InRange == current_idx \in 0..(len_data - 1)

\* C1 (as stated): after any sequence of _increment(step), _decrement(step),
\* _jump_to_end and _jump_to_beginning calls, for every integer step,
\* current_idx is within [0, T-1].
C1_IndexInRange_AnyStep == InRange

\* C1 (amended): after any sequence of _increment(step), _decrement(step),
\* _jump_to_end and _jump_to_beginning calls in which every step is >= 0,
\* current_idx is within [0, T-1].
C1_IndexInRange_NonNegSteps == steps_nonneg => InRange

\* C1 witness: calls with steps >= 0 that hit both clamps' sides: an
\* _increment that was clamped at T-1.
C1_Witness ==
    /\ steps_nonneg
    /\ last_op = "increment"
    /\ prev_idx + last_step > len_data - 1
    /\ len_data > 1

\* C2: _increment(step) sets the index to min(idx + step, T-1), idx being the
\* index before the call.
C2_IncrementIsMin ==
    last_op = "increment" => current_idx = Min(prev_idx + last_step, len_data - 1)

\* C2 witness: one call that advanced by exactly step and did not reach T-1.
C2_Witness ==
    /\ last_op = "increment"
    /\ last_step > 0
    /\ prev_idx + last_step < len_data - 1
    /\ current_idx = prev_idx + last_step

\* C3: _decrement(step) sets the index to max(idx - step, 0), idx being the
\* index before the call.
C3_DecrementIsMax ==
    last_op = "decrement" => current_idx = Max(prev_idx - last_step, 0)

\* C3 witness: a call that was clamped at 0 from a positive index.
C3_Witness ==
    /\ last_op = "decrement"
    /\ prev_idx > 0
    /\ prev_idx - last_step < 0
    /\ current_idx = 0

\* C4: after _jump_to_end, any number of _increment(k) calls with k > 0 leave
\* the index at T-1.
C4_IncrementIdempotentAtEnd ==
    (boundary_run = "end" /\ run_len >= 1) =>
        /\ last_op = "increment"
        /\ current_idx = prev_idx
        /\ current_idx = len_data - 1

\* C4 witness: at least two _increment(k > 0) calls followed a _jump_to_end.
C4_Witness ==
    /\ boundary_run = "end"
    /\ run_len >= 2
    /\ last_op = "increment"
    /\ last_step > 1

\* C5: after _jump_to_beginning, any number of _decrement(k) calls with k > 0
\* leave the index at 0.
C5_DecrementIdempotentAtBeginning ==
    (boundary_run = "begin" /\ run_len >= 1) =>
        /\ last_op = "decrement"
        /\ current_idx = prev_idx
        /\ current_idx = 0

\* C5 witness: at least two _decrement(k > 0) calls followed a
\* _jump_to_beginning.
C5_Witness ==
    /\ boundary_run = "begin"
    /\ run_len >= 2
    /\ last_op = "decrement"
    /\ last_step > 1

\* C6: _jump_to_end sets the index to T-1 and _jump_to_beginning sets it to 0,
\* whatever the index before the call.
C6_JumpsSetBoundary ==
    /\ last_op = "jump_to_end" => current_idx = len_data - 1
    /\ last_op = "jump_to_beginning" => current_idx = 0

\* C6 witness: a _jump_to_end from an index that was not T-1 (the matching
\* _jump_to_beginning from an index that was not 0 is reached the same way).
C6_Witness ==
    /\ last_op = "jump_to_end"
    /\ prev_idx # len_data - 1
    /\ prev_idx > 0

(***************************************************************************)
(* animate: the video export driver (animate.py).                          *)
(*                                                                         *)
(* FuncAnimation.save calls func once per frame 0 .. num_frames-1, then    *)
(* the progress callback, and the writer grabs the drawn frame.  func is   *)
(* functools.partial(take_step, idx=prog_keeper.idx): the keyword is bound *)
(* to the integer prog_keeper.idx had when the partial was built.          *)
(***************************************************************************)
\* most plots handed to animate
MaxPlots == 3
\* most frames asked of animate
MaxFrames == 4

\* upd_arg of a plot that has not been updated yet
NoIdx == 0 - 1

Plots == 1..n_plots

AniInit ==
    /\ ani_state = "idle"
    /\ n_plots \in 1..MaxPlots
    /\ num_frames \in 1..MaxFrames
    /\ keeper_idx = 0
    /\ bound_idx = 0
    /\ frame_no = 0
    /\ drawn = FALSE
    /\ upd_arg = [p \in Plots |-> NoIdx]
    /\ captured = <<>>
    /\ completed = 0
    /\ ani_lens \in [Plots -> 1..MaxLen]
    /\ ani_exc = "none"
    /\ now_state = "not_called"

\* _ProgressKeeper.idx as read when the partial is built: the int is copied
\* into the partial's keywords
PartialBoundIdx(keeper) == keeper

\* the idx take_step receives on a later call: the keyword bound at
\* construction, whatever _ProgressKeeper._idx has become since
TakeStepIdx_live(bound, keeper) == keeper
TakeStepIdx(bound, keeper) == bound

\* take_step(frame, idx): every plot is updated with idx
take_step(frame, idx) == [p \in Plots |-> idx]

\* item._update_plot(idx) raises IndexError: idx is past the plot's data
UpdateRaises_off_by_one(idx, lens) == \E p \in DOMAIN lens : idx >= lens[p] - 1
UpdateRaises(idx, lens) == \E p \in DOMAIN lens : idx >= lens[p]

\* animate up to anim.save: the keeper starts at 0 and the partial binds
\* idx = prog_keeper.idx
AniStart ==
    /\ ani_state = "idle"
    /\ ani_state' = "running"
    /\ keeper_idx' = 0
    /\ bound_idx' = PartialBoundIdx(0)
    /\ frame_no' = 0
    /\ drawn' = FALSE
    /\ UNCHANGED <<n_plots, num_frames, upd_arg, captured, completed,
                   ani_lens, ani_exc, now_state>>
    /\ UNCHANGED notAni

\* FuncAnimation calls func(frame) for the next frame; an IndexError of a
\* plot leaves animate
AniTakeStep ==
    /\ ani_state = "running"
    /\ ~drawn
    /\ frame_no < num_frames
    /\ IF UpdateRaises(TakeStepIdx(bound_idx, keeper_idx), ani_lens)
       THEN /\ ani_state' = "failed"
            /\ ani_exc' = "IndexError"
            /\ UNCHANGED <<upd_arg, drawn>>
       ELSE /\ upd_arg' = take_step(frame_no, TakeStepIdx(bound_idx, keeper_idx))
            /\ drawn' = TRUE
            /\ UNCHANGED <<ani_state, ani_exc>>
    /\ UNCHANGED <<n_plots, num_frames, keeper_idx, bound_idx,
                   frame_no, captured, completed, ani_lens, now_state>>
    /\ UNCHANGED notAni

\* progress_callback(current_frame, num_frames), then the frame is grabbed
AniGrabFrame ==
    /\ ani_state = "running"
    /\ drawn
    /\ keeper_idx' = keeper_idx + 1
    /\ completed' = frame_no
    /\ captured' = Append(captured, upd_arg)
    /\ frame_no' = frame_no + 1
    /\ drawn' = FALSE
    /\ UNCHANGED <<ani_state, n_plots, num_frames, bound_idx, upd_arg,
                   ani_lens, ani_exc, now_state>>
    /\ UNCHANGED notAni

\* anim.save returned: prog.update(completed=num_frames)
AniFinish_one_frame_short ==
    /\ ani_state = "running"
    /\ ~drawn
    /\ frame_no >= num_frames - 1
    /\ ani_state' = "done"
    /\ completed' = num_frames
    /\ UNCHANGED <<n_plots, num_frames, keeper_idx, bound_idx, frame_no,
                   drawn, upd_arg, captured, ani_lens, ani_exc, now_state>>
    /\ UNCHANGED notAni
AniFinish ==
    /\ ani_state = "running"
    /\ ~drawn
    /\ frame_no = num_frames
    /\ ani_state' = "done"
    /\ completed' = num_frames
    /\ UNCHANGED <<n_plots, num_frames, keeper_idx, bound_idx, frame_no,
                   drawn, upd_arg, captured, ani_lens, ani_exc, now_state>>
    /\ UNCHANGED notAni

\* the encoder (or the drawing of a frame) raises: the exception leaves
\* animate
AniFail ==
    /\ ani_state = "running"
    /\ ani_state' = "failed"
    /\ ani_exc' = "WriterError"
    /\ UNCHANGED <<n_plots, num_frames, keeper_idx, bound_idx, frame_no,
                   drawn, upd_arg, captured, completed, ani_lens, now_state>>
    /\ UNCHANGED notAni

\* the positional parameters of _create_ani_func(plots)
CreateAniFuncParams == 1
\* the positional arguments of animate_now's call
\* _create_ani_func(plots, num_frames)
AnimateNowCallArgs == 2

\* a call of a Python function whose parameters are all required and
\* positional raises TypeError
PyCallRaises_never(params, args) == FALSE
PyCallRaises(params, args) == args # params

\* animate_now(fig, plots, num_frames, time_step_s): the call of
\* _create_ani_func, then the FuncAnimation is returned
AnimateNow ==
    /\ now_state = "not_called"
    /\ now_state' = IF PyCallRaises(CreateAniFuncParams, AnimateNowCallArgs)
                    THEN "raised" ELSE "running"
    /\ UNCHANGED <<ani_state, n_plots, num_frames, keeper_idx, bound_idx,
                   frame_no, drawn, upd_arg, captured, completed, ani_lens,
                   ani_exc>>
    /\ UNCHANGED notAni

AniNext ==
    \/ AniStart
    \/ AniTakeStep
    \/ AniGrabFrame
    \/ AniFinish
    \/ AniFail
    \/ AnimateNow

(***************************************************************************)
(* Claims about animate (checked under SpecAnimate).                       *)
(***************************************************************************)
\* C7: during animate each step updates every plot with one and the same
\* frame index, and that index advances from step to step: captured frame k
\* (k = 0, 1, ...) shows sample k of every plot.
C7_FrameKShowsSampleK ==
    \A k \in 1..Len(captured) : \A p \in Plots : captured[k][p] = k - 1

\* animate's state changes: idle -> running -> done, or running -> failed
\* when an exception leaves it
AniTransitions ==
    {<<"idle", "running">>, <<"running", "done">>, <<"running", "failed">>}

\* a change of animate's state is one of AniTransitions
AniMovesForward ==
    ani_state' # ani_state => <<ani_state, ani_state'>> \in AniTransitions

\* once done or failed, animate takes no step and reports nothing
AniStaysTerminated ==
    ani_state \in {"done", "failed"} =>
        /\ ani_state' = ani_state
        /\ completed' = completed
        /\ captured' = captured

DifferingCounts == \E p, q \in Plots : ani_lens[p] # ani_lens[q]

C20_AnimateNowReturnsAnimation ==
    now_state # "not_called" => now_state = "running"

(***************************************************************************)
(* Window: the event handlers and the debounced _update_tabs (window.py).  *)
(*                                                                         *)
(* The handlers are GTK signal callbacks: they run on the GTK main thread. *)
(* A second handler can start only while no handler runs, or while the     *)
(* running _update_tabs is inside Tab._blit, whose canvas.flush_events()   *)
(* dispatches the pending events (tab.py:118-121); the outer call goes on  *)
(* when the nested handler has returned.                                   *)
(***************************************************************************)
\* deepest nesting of _update_tabs calls
MaxDepth == 3
\* most tabs registered on the window
MaxTabs == 2

SLOW_STEP == 1
MEDIUM_STEP == 10
FAST_STEP == 50

Events == {"Right", "Left", "Up", "Down", "s", "m", "f", "b", "other",
           "scroll_up", "scroll_down", "scroll_other"}

Tabs == 1..n_tabs

\* Window._increment: the new value of _idx
Window_increment_past_end(idx, step, T) ==
    LET i == idx + step IN IF i > T THEN T - 1 ELSE i
Window_increment(idx, step, T) ==
    LET i == idx + step IN IF i >= T THEN T - 1 ELSE i

\* Window._decrement: the new value of _idx
Window_decrement(idx, step) ==
    LET i == idx - step IN IF i < 0 THEN 0 ELSE i

\* _keyboard_callback / _mouse_scroll_callback: the new value of _idx
Window_event_idx_keys_only(ev, idx, step, T) ==
    CASE ev = "Right" -> Window_increment(idx, step, T)
      [] ev = "Left" -> Window_decrement(idx, step)
      [] ev = "Up" -> T - 1
      [] ev = "Down" -> 0
      [] OTHER -> idx
Window_event_idx(ev, idx, step, T) ==
    CASE ev \in {"Right", "scroll_up"} -> Window_increment(idx, step, T)
      [] ev \in {"Left", "scroll_down"} -> Window_decrement(idx, step)
      [] ev = "Up" -> T - 1
      [] ev = "Down" -> 0
      [] OTHER -> idx

\* _keyboard_callback: the new value of _step
Window_event_step_m_is_fast(ev, step) ==
    CASE ev = "s" -> SLOW_STEP
      [] ev = "m" -> FAST_STEP
      [] ev = "f" -> FAST_STEP
      [] OTHER -> step
Window_event_step(ev, step) ==
    CASE ev = "s" -> SLOW_STEP
      [] ev = "m" -> MEDIUM_STEP
      [] ev = "f" -> FAST_STEP
      [] OTHER -> step

\* whether the handler goes on to call _update_tabs
CallsUpdateTabs(ev) == ev \notin {"b", "other"}

\* _update_tabs: `if self._update_lock.locked(): return`
DropsCall_never(locked) == FALSE
DropsCall(locked) == locked

\* threading.Lock.acquire(): returns once the lock is free
AcquireReturns_always(locked) == TRUE
AcquireReturns(locked) == ~locked

NewCall == [pc |-> "check", saw_locked |-> FALSE, did_update |-> FALSE]

Depth == Len(calls)
Running == calls[Depth]
SetRunning(c) == [calls EXCEPT ![Depth] = c]
Returned == SubSeq(calls, 1, Depth - 1)

\* GTK dispatches an event: no handler runs, or the running call is inside
\* flush_events
CanDispatch == IF Depth = 0 THEN TRUE ELSE Running.pc = "flush"

WinInit ==
    /\ win_len \in 1..MaxLen
    /\ win_idx = 0
    /\ win_step = 1
    /\ update_lock = FALSE
    /\ n_tabs \in 1..MaxTabs
    /\ tab_idx = [t \in Tabs |-> 0]
    /\ calls = <<>>
    /\ last_event = "none"
    /\ last_return = [saw_locked |-> FALSE, did_update |-> FALSE, depth |-> 0]
    /\ current_tab_idx = 0

\* _keyboard_callback / _mouse_scroll_callback up to the call of _update_tabs
WinEvent(ev) ==
    /\ CanDispatch
    /\ CallsUpdateTabs(ev) => Depth < MaxDepth
    /\ win_idx' = Window_event_idx(ev, win_idx, win_step, win_len)
    /\ win_step' = Window_event_step(ev, win_step)
    /\ calls' = IF CallsUpdateTabs(ev) THEN Append(calls, NewCall) ELSE calls
    /\ last_event' = ev
    /\ UNCHANGED current_tab_idx
    /\ UNCHANGED <<win_len, update_lock, n_tabs, tab_idx, last_return>>
    /\ UNCHANGED notWin

\* _update_tabs: the locked() test; a call that finds the lock held returns
UpdateTabsCheck ==
    /\ Depth > 0
    /\ Running.pc = "check"
    /\ IF DropsCall(update_lock)
       THEN /\ calls' = Returned
            /\ last_return' = [saw_locked |-> update_lock,
                               did_update |-> Running.did_update,
                               depth |-> Depth]
       ELSE /\ calls' = SetRunning([Running EXCEPT !.pc = "acquire",
                                                   !.saw_locked = update_lock])
            /\ UNCHANGED last_return
    /\ UNCHANGED current_tab_idx
    /\ UNCHANGED <<win_len, win_idx, win_step, update_lock, n_tabs, tab_idx,
                   last_event>>
    /\ UNCHANGED notWin

\* _update_tabs: acquire(); with the lock held the call waits here
UpdateTabsAcquire ==
    /\ Depth > 0
    /\ Running.pc = "acquire"
    /\ AcquireReturns(update_lock)
    /\ update_lock' = TRUE
    /\ calls' = SetRunning([Running EXCEPT !.pc = "update"])
    /\ UNCHANGED current_tab_idx
    /\ UNCHANGED <<win_len, win_idx, win_step, n_tabs, tab_idx, last_event,
                   last_return>>
    /\ UNCHANGED notWin

\* _update_tabs: background, tab._update_all(self._idx) for every tab,
\* redraw, and the blit up to flush_events
UpdateTabsSection ==
    /\ Depth > 0
    /\ Running.pc = "update"
    /\ tab_idx' = [t \in Tabs |-> win_idx]
    /\ calls' = SetRunning([Running EXCEPT !.pc = "flush", !.did_update = TRUE])
    /\ UNCHANGED current_tab_idx
    /\ UNCHANGED <<win_len, win_idx, win_step, update_lock, n_tabs,
                   last_event, last_return>>
    /\ UNCHANGED notWin

\* _update_tabs: flush_events returns, release(), return
UpdateTabsRelease ==
    /\ Depth > 0
    /\ Running.pc = "flush"
    /\ update_lock' = FALSE
    /\ calls' = Returned
    /\ last_return' = [saw_locked |-> Running.saw_locked,
                       did_update |-> Running.did_update,
                       depth |-> Depth]
    /\ UNCHANGED current_tab_idx
    /\ UNCHANGED <<win_len, win_idx, win_step, n_tabs, tab_idx, last_event>>
    /\ UNCHANGED notWin

\* _update_tabs: an exception leaves the section (no try/finally: the lock
\* is not released); PyGObject reports it and the main loop goes on
UpdateTabsRaise ==
    /\ Depth > 0
    /\ Running.pc \in {"update", "flush"}
    /\ calls' = Returned
    /\ last_return' = [saw_locked |-> Running.saw_locked,
                       did_update |-> Running.did_update,
                       depth |-> Depth]
    /\ UNCHANGED current_tab_idx
    /\ UNCHANGED <<win_len, win_idx, win_step, update_lock, n_tabs, tab_idx,
                   last_event>>
    /\ UNCHANGED notWin

\* _tab_change_callback(notebook, page, page_num): the notebook's
\* "switch-page" signal; it saves and draws the background of the new tab
TabChange(page_num) ==
    /\ CanDispatch
    /\ page_num < n_tabs
    /\ current_tab_idx' = page_num
    /\ last_event' = "switch_page"
    /\ UNCHANGED <<win_len, win_idx, win_step, update_lock, n_tabs, tab_idx,
                   calls, last_return>>
    /\ UNCHANGED notWin

WinNext ==
    \/ \E ev \in Events : WinEvent(ev)
    \/ \E page_num \in 0..(MaxTabs - 1) : TabChange(page_num)
    \/ UpdateTabsCheck
    \/ UpdateTabsAcquire
    \/ UpdateTabsSection
    \/ UpdateTabsRelease
    \/ UpdateTabsRaise

(***************************************************************************)
(* Claims about Window (checked under SpecWindow).                         *)
(***************************************************************************)
InSection(c) == c.pc \in {"update", "flush"}
Waiting(c) == c.pc = "acquire" /\ update_lock

HandlerCalledUpdateTabs == Len(calls') = Len(calls) + 1

\* C26: Window._idx stays in [0, len_data - 1]; Right and scroll-up set it to
\* min(idx + step, len_data - 1), Left and scroll-down to max(idx - step, 0),
\* Up to len_data - 1 and Down to 0.
C26_HandlerMovesIdx ==
    HandlerCalledUpdateTabs =>
        /\ last_event' \in {"Right", "scroll_up"} =>
               win_idx' = Min(win_idx + win_step, win_len - 1)
        /\ last_event' \in {"Left", "scroll_down"} =>
               win_idx' = Max(win_idx - win_step, 0)
        /\ last_event' = "Up" => win_idx' = win_len - 1
        /\ last_event' = "Down" => win_idx' = 0

C26_WindowIdxStaysInRange ==
    /\ [](win_idx \in 0..(win_len - 1))
    /\ [][C26_HandlerMovesIdx]_vars

\* Right with the medium step has run into the end of data of several frames
C26_Witness ==
    /\ last_event = "Right"
    /\ win_step = MEDIUM_STEP
    /\ win_len > 1
    /\ win_idx = win_len - 1

\* C27: s, m and f set _step to the slow, medium and fast step and leave
\* _idx alone; b and unmapped keys leave _idx and _step alone and do not
\* call _update_tabs; a tab switch changes _current_tab_idx only.
C27_KeyChangesOnlyItsField ==
    /\ (HandlerCalledUpdateTabs /\ last_event' \in {"s", "m", "f"}) =>
           /\ win_idx' = win_idx
           /\ last_event' = "s" => win_step' = SLOW_STEP
           /\ last_event' = "m" => win_step' = MEDIUM_STEP
           /\ last_event' = "f" => win_step' = FAST_STEP
    /\ (last_event' # last_event /\ last_event' \in {"b", "other"}) =>
           /\ win_idx' = win_idx
           /\ win_step' = win_step
           /\ calls' = calls
           /\ tab_idx' = tab_idx
    /\ current_tab_idx' # current_tab_idx =>
           /\ win_idx' = win_idx
           /\ win_step' = win_step
           /\ UNCHANGED <<win_len, update_lock, n_tabs, tab_idx, calls,
                          last_return>>

C27_StepKeysAndIgnoredKeys == [][C27_KeyChangesOnlyItsField]_vars

\* b was pressed on the second tab with the medium step chosen and the index
\* off the first frame
C27_Witness ==
    /\ last_event = "b"
    /\ current_tab_idx = 1
    /\ win_step = MEDIUM_STEP
    /\ win_idx > 0

\* C28: the lock is held only while a call of _update_tabs is between its
\* acquire and its release: a call that ended, normally or by an exception,
\* has released it, so it makes no later call return early.
C28_LockHeldOnlyDuringUpdate ==
    update_lock => \E i \in 1..Depth : InSection(calls[i])

\* C29: a handler that runs while an update is in flight moves _idx and
\* _step as it does otherwise; its _update_tabs call is dropped without
\* touching a tab or the index.
C29_HandlerUnderLock ==
    /\ (update_lock /\ HandlerCalledUpdateTabs) =>
           /\ last_event' \in {"Right", "scroll_up"} =>
                  win_idx' = Min(win_idx + win_step, win_len - 1)
           /\ last_event' \in {"Left", "scroll_down"} =>
                  win_idx' = Max(win_idx - win_step, 0)
           /\ last_event' = "Up" => win_idx' = win_len - 1
           /\ last_event' = "Down" => win_idx' = 0
           /\ last_event' = "s" => win_step' = SLOW_STEP
           /\ last_event' = "m" => win_step' = MEDIUM_STEP
           /\ last_event' = "f" => win_step' = FAST_STEP
           /\ tab_idx' = tab_idx
    /\ (Depth > 0 /\ Len(calls') = Depth - 1 /\ calls[Depth].pc = "check") =>
           /\ update_lock
           /\ tab_idx' = tab_idx
           /\ win_idx' = win_idx
           /\ win_step' = win_step
           /\ update_lock'

MaxEpochs == 2
MaxBars == 2
MaxStacks == 2
\* most entries of a data array
MaxCells == 6
\* data values are 0 .. MaxVal
MaxVal == 1

Vals == 0..MaxVal

RECURSIVE SumTo(_, _)
\* f[1] + ... + f[n]
SumTo(f, n) == IF n = 0 THEN 0 ELSE SumTo(f, n - 1) + f[n]

\* the (T, B, S) arrays the model draws y_data from
StackBarData ==
    UNION { [1..T -> [1..B -> [1..S -> Vals]]] :
            <<T, B, S>> \in { sh \in (1..MaxEpochs) \X (1..MaxBars) \X (1..MaxStacks) :
                              sh[1] * sh[2] * sh[3] <= MaxCells } }

\* LiveStackBar.len_data, num_cols, num_stacks
sb_len_data == Len(sb_y_data)
sb_num_cols == Len(sb_y_data[1])
sb_num_stacks == Len(sb_y_data[1][1])

\* _get_plot_data: self._y_data[self.current_idx, ...], a (B, S) array
StackBar_get_plot_data(y_data, idx) == y_data[idx + 1]

\* row s of plot_y.T: the values of stack s, one per bar
StackRow(plot_y, s) == [b \in 1..Len(plot_y) |-> plot_y[b][s]]

\* _create_plots: `bottom += yval`, yval being the row of the stack
CreateRaise(yvals) == yvals

\* _update_artists: `bottoms += yval` after the inner loop, whose loop
\* variable yval is left at the last bar's value: the scalar is added to
\* every bar's bottom
UpdateRaise_per_bar(yvals) == yvals
UpdateRaise(yvals) == [b \in 1..Len(yvals) |-> yvals[Len(yvals)]]

RECURSIVE CreateBottoms(_, _)
\* _create_plots: `bottom` when stack s is drawn
CreateBottoms(plot_y, s) ==
    IF s = 1 THEN [b \in 1..Len(plot_y) |-> 0]
    ELSE [b \in 1..Len(plot_y) |->
             CreateBottoms(plot_y, s - 1)[b] + CreateRaise(StackRow(plot_y, s - 1))[b]]

RECURSIVE UpdateBottoms(_, _)
\* _update_artists: `bottoms` when stack s is set
UpdateBottoms(plot_y, s) ==
    IF s = 1 THEN [b \in 1..Len(plot_y) |-> 0]
    ELSE [b \in 1..Len(plot_y) |->
             UpdateBottoms(plot_y, s - 1)[b] + UpdateRaise(StackRow(plot_y, s - 1))[b]]

\* _create_plots: ax.bar(height=yval, bottom=bottom) per stack
StackBar_create_plots(plot_y) ==
    [s \in 1..Len(plot_y[1]) |->
        [b \in 1..Len(plot_y) |->
            [height |-> StackRow(plot_y, s)[b], y |-> CreateBottoms(plot_y, s)[b]]]]

\* _update_artists: patch.set_height(yval), patch.set_y(bottom) per stack
StackBar_update_artists(plot_y) ==
    [s \in 1..Len(plot_y[1]) |->
        [b \in 1..Len(plot_y) |->
            [height |-> StackRow(plot_y, s)[b], y |-> UpdateBottoms(plot_y, s)[b]]]]

\* the largest element of a non-empty set of integers
SetMax(S) == CHOOSE m \in S : \A x \in S : x <= m

\* _calc_max_heights: np.max(np.sum(self._y_data, axis=2), axis=1), per epoch
\* the height of its tallest bar
StackBar_calc_max_heights(y_data) ==
    [i \in 1..Len(y_data) |->
        SetMax({SumTo(y_data[i][b], Len(y_data[i][b])) : b \in 1..Len(y_data[i])})]

\* _get_data_axis_limits: the lower and upper y limit (x_data is not modelled)
StackBar_get_data_axis_limits_first_epoch(max_heights, idx) ==
    [yb |-> 0, yt |-> max_heights[1]]
StackBar_get_data_axis_limits(max_heights, idx) ==
    [yb |-> 0, yt |-> max_heights[idx + 1]]

SbInit ==
    /\ sb_y_data \in StackBarData
    /\ sb_idx = 0
    /\ sb_patches = StackBar_create_plots(StackBar_get_plot_data(sb_y_data, 0))
    /\ sb_last = "create"
    /\ sb_max_heights = StackBar_calc_max_heights(sb_y_data)

\* LiveBase._update_plot: _update_artists(*_get_plot_data()) at index idx
StackBar_update_plot(y_data, idx) ==
    StackBar_update_artists(StackBar_get_plot_data(y_data, idx))

\* Tab._increment_all(step) on this plot: _increment, then _update_plot
SbIncrement(step) ==
    /\ sb_idx' = LiveBase_increment(sb_idx, step, sb_len_data)
    /\ sb_patches' = StackBar_update_plot(sb_y_data, sb_idx')
    /\ sb_last' = "update"
    /\ UNCHANGED <<sb_y_data, sb_max_heights>>
    /\ UNCHANGED notSb

\* Tab._decrement_all(step) on this plot: _decrement, then _update_plot
SbDecrement(step) ==
    /\ sb_idx' = LiveBase_decrement(sb_idx, step)
    /\ sb_patches' = StackBar_update_plot(sb_y_data, sb_idx')
    /\ sb_last' = "update"
    /\ UNCHANGED <<sb_y_data, sb_max_heights>>
    /\ UNCHANGED notSb

\* Tab._jump_all_to_end() on this plot: _jump_to_end, then _update_plot
SbJumpToEnd ==
    /\ sb_idx' = LiveBase_jump_to_end(sb_len_data)
    /\ sb_patches' = StackBar_update_plot(sb_y_data, sb_idx')
    /\ sb_last' = "update"
    /\ UNCHANGED <<sb_y_data, sb_max_heights>>
    /\ UNCHANGED notSb

\* Tab._jump_all_to_beginning() on this plot: _jump_to_beginning, then
\* _update_plot
SbJumpToBeginning ==
    /\ sb_idx' = LiveBase_jump_to_beginning(sb_idx)
    /\ sb_patches' = StackBar_update_plot(sb_y_data, sb_idx')
    /\ sb_last' = "update"
    /\ UNCHANGED <<sb_y_data, sb_max_heights>>
    /\ UNCHANGED notSb

\* the steps the Window hands to its tabs are positive
PosSteps == 1..MaxStep

SbNext ==
    \/ \E step \in PosSteps : SbIncrement(step)
    \/ \E step \in PosSteps : SbDecrement(step)
    \/ SbJumpToEnd
    \/ SbJumpToBeginning

(***************************************************************************)
(* Claims about LiveStackBar (checked under SpecStackBar).                 *)
(***************************************************************************)
\* the values of bar b at frame i, one per stack
BarValues(i, b) == sb_y_data[i + 1][b]

\* C9: after an update for frame i, for every bar b and stack s the patch of
\* (s, b) has height y[i, b, s] and baseline y[i, b, 0] + ... + y[i, b, s-1],
\* so the top of the stack at bar b is the sum of all values at (i, b).
C9_BaselineIsSumBelow ==
    sb_last = "update" =>
        \A s \in 1..sb_num_stacks : \A b \in 1..sb_num_cols :
            /\ sb_patches[s][b].height = BarValues(sb_idx, b)[s]
            /\ sb_patches[s][b].y = SumTo(BarValues(sb_idx, b), s - 1)
            /\ s = sb_num_stacks =>
                   sb_patches[s][b].y + sb_patches[s][b].height
                       = SumTo(BarValues(sb_idx, b), sb_num_stacks)

\* the upper y limit the adapter reports at its current index
SbUpperBound == StackBar_get_data_axis_limits(sb_max_heights, sb_idx).yt

\* the summed values of bar b at frame i (0-based)
BarTotal(i, b) == SumTo(BarValues(i, b), sb_num_stacks)

\* C24 as stated: at every frame index the reported upper y limit is the
\* maximum over all frames and all bars of the summed per-category values.
C24_UpperBoundIsMaxOverAllFrames ==
    SbUpperBound = SetMax({BarTotal(i, b) : i \in 0..(sb_len_data - 1),
                                            b \in 1..sb_num_cols})

\* C24 amended: the per-frame maxima are computed at construction and never
\* change, and the reported upper y limit is the maximum over the bars of the
\* summed per-category values of the current frame.
C24_UpperBoundIsMaxOfCurrentFrame ==
    /\ sb_max_heights = [i \in 1..sb_len_data |->
                            SetMax({BarTotal(i - 1, b) : b \in 1..sb_num_cols})]
    /\ SbUpperBound = SetMax({BarTotal(sb_idx, b) : b \in 1..sb_num_cols})

\* after an update to a later frame whose tallest bar is lower than the
\* tallest bar of the first frame
C24_Witness ==
    /\ sb_last = "update"
    /\ sb_idx > 0
    /\ SbUpperBound < sb_max_heights[1]

(***************************************************************************)
(* LiveComet (live_comet.py).  An update is an index move of LiveBase      *)
(* followed by _update_plot, as Tab does for every registered plot.        *)
(***************************************************************************)
\* a[i] for a 0-based index i >= 0 of a Python sequence
PyItem(a, i) == a[i + 1]

\* a[:n] of a Python sequence: a negative n counts from the end, and the
\* bound is clipped to the sequence
PyPrefix_inclusive(a, n) == SubSeq(a, 1, Min(n + 1, Len(a)))
PyPrefix(a, n) ==
    IF n < 0 THEN SubSeq(a, 1, Max(Len(a) + n, 0))
    ELSE SubSeq(a, 1, Min(n, Len(a)))

\* LiveComet._get_plot_data: head_x, head_y, tail_x, tail_y
Comet_get_plot_data(x, y, idx) ==
    [head |-> <<PyItem(x, idx), PyItem(y, idx)>>,
     tail |-> <<PyPrefix(x, idx), PyPrefix(y, idx)>>]

\* the equal-length 1-D arrays the model draws x_data and y_data from
CometData == UNION { [1..T -> Vals] : T \in 1..MaxLen }

cm_len_data == Len(cm_x)

\* __post_init__: _validate_data passed, _create_head and _create_tail plot
\* _get_plot_data() at index 0
CmInit ==
    /\ cm_x \in CometData
    /\ cm_y \in CometData
    /\ Len(cm_x) = Len(cm_y)
    /\ cm_idx = 0
    /\ cm_head = Comet_get_plot_data(cm_x, cm_y, 0).head
    /\ cm_tail = Comet_get_plot_data(cm_x, cm_y, 0).tail
    /\ cm_last = "create"

\* Tab._increment_all(step) on this plot: _increment, then _update_plot
CmIncrement(step) ==
    /\ cm_idx' = LiveBase_increment(cm_idx, step, cm_len_data)
    /\ cm_head' = Comet_get_plot_data(cm_x, cm_y, cm_idx').head
    /\ cm_tail' = Comet_get_plot_data(cm_x, cm_y, cm_idx').tail
    /\ cm_last' = "update"
    /\ UNCHANGED <<cm_x, cm_y>>
    /\ UNCHANGED notCm

\* Tab._decrement_all(step) on this plot: _decrement, then _update_plot
CmDecrement(step) ==
    /\ cm_idx' = LiveBase_decrement(cm_idx, step)
    /\ cm_head' = Comet_get_plot_data(cm_x, cm_y, cm_idx').head
    /\ cm_tail' = Comet_get_plot_data(cm_x, cm_y, cm_idx').tail
    /\ cm_last' = "update"
    /\ UNCHANGED <<cm_x, cm_y>>
    /\ UNCHANGED notCm

\* Tab._jump_all_to_end() on this plot: _jump_to_end, then _update_plot
CmJumpToEnd ==
    /\ cm_idx' = LiveBase_jump_to_end(cm_len_data)
    /\ cm_head' = Comet_get_plot_data(cm_x, cm_y, cm_idx').head
    /\ cm_tail' = Comet_get_plot_data(cm_x, cm_y, cm_idx').tail
    /\ cm_last' = "update"
    /\ UNCHANGED <<cm_x, cm_y>>
    /\ UNCHANGED notCm

\* Tab._jump_all_to_beginning() on this plot: _jump_to_beginning, then
\* _update_plot
CmJumpToBeginning ==
    /\ cm_idx' = LiveBase_jump_to_beginning(cm_idx)
    /\ cm_head' = Comet_get_plot_data(cm_x, cm_y, cm_idx').head
    /\ cm_tail' = Comet_get_plot_data(cm_x, cm_y, cm_idx').tail
    /\ cm_last' = "update"
    /\ UNCHANGED <<cm_x, cm_y>>
    /\ UNCHANGED notCm

CmNext ==
    \/ \E step \in PosSteps : CmIncrement(step)
    \/ \E step \in PosSteps : CmDecrement(step)
    \/ CmJumpToEnd
    \/ CmJumpToBeginning

(***************************************************************************)
(* Claims about LiveComet (checked under SpecComet).                       *)
(***************************************************************************)
\* C10: at index idx the head is the single point (x[idx], y[idx]) and the
\* tail is exactly the first idx points: empty at idx = 0, all points but the
\* last at idx = T-1.
C10_HeadAtIdxTailIsPrefix ==
    cm_idx \in 0..(cm_len_data - 1) =>
    /\ cm_head = <<cm_x[cm_idx + 1], cm_y[cm_idx + 1]>>
    /\ Len(cm_tail[1]) = cm_idx
    /\ Len(cm_tail[2]) = cm_idx
    /\ \A k \in 1..cm_idx : cm_tail[1][k] = cm_x[k] /\ cm_tail[2][k] = cm_y[k]
    /\ cm_idx = 0 => cm_tail = << <<>>, <<>> >>
    /\ cm_idx = cm_len_data - 1 =>
           /\ Len(cm_tail[1]) = cm_len_data - 1
           /\ Append(cm_tail[1], cm_head[1]) = cm_x
           /\ Append(cm_tail[2], cm_head[2]) = cm_y

\* C10 witness: an update has moved the comet to the last of three or more
\* points whose values are not all equal, so the tail holds all but the last.
C10_Witness ==
    /\ cm_last = "update"
    /\ cm_len_data >= 3
    /\ cm_idx = cm_len_data - 1
    /\ cm_x[1] # cm_x[2]
    /\ cm_y[2] # cm_y[3]

(***************************************************************************)
(* numpy arrays.  An array is a shape and a function from the index tuples *)
(* of that shape (0-based) to cells.  The adapters only move cells around, *)
(* so a cell of an input array is the name of the array and its index      *)
(* there: the data of a drawable then says which input samples it shows.   *)
(***************************************************************************)
\* most dimensions of an input array
MaxDim == 3
\* longest axis of an input array
MaxSide == 2
\* most cells of an input array
MaxSize == 4

RECURSIVE Product(_)
Product(sh) == IF Len(sh) = 0 THEN 1 ELSE sh[1] * Product(Tail(sh))

\* the shapes the model draws input arrays from
Shapes ==
    { sh \in UNION { [1..n -> 1..MaxSide] : n \in 1..MaxDim } :
          Product(sh) <= MaxSize }

RemoveAt(s, k) == SubSeq(s, 1, k - 1) \o SubSeq(s, k + 1, Len(s))
InsertAt(s, k, v) == SubSeq(s, 1, k - 1) \o <<v>> \o SubSeq(s, k, Len(s))

\* the index tuples of an array of shape sh
ArrayIndices(sh) ==
    { i \in [1..Len(sh) -> 0..(MaxSide - 1)] : \A k \in 1..Len(sh) : i[k] < sh[k] }

\* the array passed as argument `name`, of shape sh
InputArray(name, sh) ==
    [shape |-> sh, data |-> [i \in ArrayIndices(sh) |-> <<name, i>>]]

NoArray == [shape |-> <<0>>, data |-> <<>>]

\* np.atleast_2d: a 1-D array of length N becomes the row (1, N)
np_atleast_2d(a) ==
    IF Len(a.shape) >= 2 THEN a
    ELSE LET sh == <<1, a.shape[1]>> IN
         [shape |-> sh, data |-> [i \in ArrayIndices(sh) |-> a.data[<<i[2]>>]]]

\* ndarray.squeeze(): the axes of length 1 are removed
np_squeeze_shape(sh) == SelectSeq(sh, LAMBDA d : d # 1)

\* np.atleast_1d(a).ndim for an array of shape sh
np_atleast_1d_ndim(sh) == Max(Len(sh), 1)

\* ndarray.take(indices=idx, axis=axis) raises IndexError
np_take_raises(a, idx, axis) ==
    idx >= a.shape[axis + 1] \/ idx < 0 - a.shape[axis + 1]

\* ndarray.take(indices=idx, axis=axis): the sub-array at position idx of
\* the axis, which is removed from the shape
np_take(a, idx, axis) ==
    LET n == a.shape[axis + 1]
        at == IF idx < 0 THEN idx + n ELSE idx
        sh == RemoveAt(a.shape, axis + 1)
    IN [shape |-> sh,
        data |-> [j \in ArrayIndices(sh) |-> a.data[InsertAt(j, axis + 1, at)]]]

\* the exceptions of exceptions.py with the attributes they carry
NoExc == [name |-> "none", a |-> <<>>, b |-> <<>>]
InconsistentArrayShape(x_shape, y_shape) ==
    [name |-> "InconsistentArrayShape", a |-> x_shape, b |-> y_shape]
InvalidIterationAxis(iter_axis, num_dims) ==
    [name |-> "InvalidIterationAxis", a |-> <<iter_axis>>, b |-> <<num_dims>>]
ArrayNot1D(ndim) == [name |-> "ArrayNot1D", a |-> <<ndim>>, b |-> <<>>]
\* raised by matplotlib, not by this package
LibraryError == [name |-> "ValueError", a |-> <<>>, b |-> <<>>]

(***************************************************************************)
(* LiveLine (live_line.py).                                                *)
(***************************************************************************)
\* the iter_axis arguments the model tries
IterArgs == (0 - 1)..MaxDim

\* __post_init__: `if np.atleast_1d(x_data.squeeze()).ndim == 1:
\*                     self.iter_axis = 0`
Line_iter_axis_always_zero(x2, iter_arg) == 0
Line_iter_axis(x2, iter_arg) ==
    IF np_atleast_1d_ndim(np_squeeze_shape(x2.shape)) = 1 THEN 0 ELSE iter_arg

\* LiveLine._validate_data: the exception it raises, NoExc when it returns
Line_validate_data(x2, y2, iter_axis) ==
    IF x2.shape # y2.shape THEN InconsistentArrayShape(x2.shape, y2.shape)
    ELSE IF iter_axis < 0 \/ iter_axis >= Len(x2.shape)
         THEN InvalidIterationAxis(iter_axis, Len(x2.shape))
         ELSE NoExc

\* LiveLine._get_plot_data(idx)
Line_get_plot_data(x, y, idx, iter_axis) ==
    <<np_take(x, idx, iter_axis), np_take(y, idx, iter_axis)>>

\* ax.plot(plot_x, plot_y) raises: matplotlib takes arrays of at most 2-D
Line_plot_raises(plot) == Len(plot[1].shape) > 2

\* `self._line, *_ = self.ax.plot(plot_x, plot_y)`: the data of the first
\* line; 2-D arguments are plotted column by column
Line_first_line(plot) ==
    IF Len(plot[1].shape) = 2
    THEN <<np_take(plot[1], 0, 1), np_take(plot[2], 0, 1)>>
    ELSE plot

\* LiveLine(ax, x_data, y_data, iter_axis): __post_init__
ConstructLine ==
    /\ ad_kind = "line"
    /\ ad_state = "new"
    /\ LET x2 == np_atleast_2d(InputArray("x", ad_x))
           y2 == np_atleast_2d(InputArray("y", ad_y))
           iter_axis == Line_iter_axis(x2, ad_iter_arg)
           exc == Line_validate_data(x2, y2, iter_axis)
           plot == Line_get_plot_data(x2, y2, 0, iter_axis)
       IN /\ ln_iter_axis' = iter_axis
          /\ IF exc # NoExc
             THEN /\ ad_state' = "raised"
                  /\ ad_exc' = exc
                  /\ UNCHANGED <<ad_artists, ln_x, ln_y, ln_line, ln_frame>>
             ELSE /\ ln_x' = x2
                  /\ ln_y' = y2
                  /\ IF Line_plot_raises(plot)
                     THEN /\ ad_state' = "raised"
                          /\ ad_exc' = LibraryError
                          /\ UNCHANGED <<ad_artists, ln_line, ln_frame>>
                     ELSE /\ ad_state' = "built"
                          /\ ad_exc' = NoExc
                          /\ ad_artists' = ad_artists + 1
                          /\ ln_line' = Line_first_line(plot)
                          /\ ln_frame' = 0
    /\ UNCHANGED <<ad_kind, ad_x, ad_y, ad_angle, ad_steering, ad_iter_arg,
                   ln_err>>
    /\ UNCHANGED notAd

\* the frame indices a Window or animate hands to a plot
Frames == 0..(MaxSide - 1)

\* _update_plot(idx) of a LiveLine, as Tab._update_all and take_step call
\* it: _update_artists(idx, *_get_plot_data(idx)) sets the line's data; an
\* IndexError of take leaves the line as it was
LineUpdate(idx) ==
    /\ ad_kind = "line"
    /\ ad_state = "built"
    /\ ln_frame' = idx
    /\ IF np_take_raises(ln_x, idx, ln_iter_axis)
       THEN /\ ln_err' = "IndexError"
            /\ UNCHANGED ln_line
       ELSE /\ ln_err' = "none"
            /\ ln_line' = Line_get_plot_data(ln_x, ln_y, idx, ln_iter_axis)
    /\ UNCHANGED <<ad_kind, ad_x, ad_y, ad_angle, ad_steering, ad_iter_arg,
                   ad_state, ad_exc, ad_artists, ln_x, ln_y, ln_iter_axis>>
    /\ UNCHANGED notAd

(***************************************************************************)
(* The constructors of the adapters that take 1-D series: what they raise  *)
(* and how many drawables they have added to the axes.                     *)
(***************************************************************************)
\* LiveComet._validate_data
Comet_validate_data(x_shape, y_shape) ==
    IF Len(x_shape) > 1 THEN ArrayNot1D(Len(x_shape))
    ELSE IF Len(y_shape) > 1 THEN ArrayNot1D(Len(y_shape))
    ELSE IF x_shape # y_shape THEN InconsistentArrayShape(x_shape, y_shape)
    ELSE NoExc

\* LiveRectangle._validate_data
Rectangle_validate_data(x_shape, y_shape, angle_shape) ==
    IF x_shape # y_shape THEN InconsistentArrayShape(x_shape, y_shape)
    ELSE IF x_shape # angle_shape THEN InconsistentArrayShape(x_shape, angle_shape)
    ELSE IF Len(x_shape) # 1 THEN ArrayNot1D(Len(x_shape))
    ELSE NoExc

\* LiveFancyBBox._validate_data
FancyBBox_validate_data(x_shape, y_shape, angle_shape) ==
    IF x_shape # y_shape THEN InconsistentArrayShape(x_shape, y_shape)
    ELSE IF x_shape # angle_shape THEN InconsistentArrayShape(x_shape, angle_shape)
    ELSE IF Len(x_shape) # 1 THEN ArrayNot1D(Len(x_shape))
    ELSE NoExc

\* LiveVLine.__post_init__: x_data is squeezed before its ndim is tested
VLine_validate_data(x_shape) ==
    LET sq == np_squeeze_shape(x_shape) IN
    IF Len(sq) # 1 THEN ArrayNot1D(Len(sq)) ELSE NoExc

\* live_vehicle._validate_data
Vehicle_validate_data(x_shape, y_shape, angle_shape, steering_shape) ==
    IF x_shape # y_shape THEN InconsistentArrayShape(x_shape, y_shape)
    ELSE IF x_shape # angle_shape THEN InconsistentArrayShape(x_shape, angle_shape)
    ELSE IF x_shape # steering_shape
         THEN InconsistentArrayShape(x_shape, steering_shape)
    ELSE IF Len(x_shape) # 1 THEN ArrayNot1D(Len(x_shape))
    ELSE NoExc

\* the tires of _TireEnum
NumTires == 4

\* LiveComet(ax, x_data, y_data): validation, then the head and the tail
ConstructComet ==
    /\ ad_kind = "comet"
    /\ ad_state = "new"
    /\ ad_exc' = Comet_validate_data(ad_x, ad_y)
    /\ ad_state' = IF ad_exc' = NoExc THEN "built" ELSE "raised"
    /\ ad_artists' = IF ad_exc' = NoExc THEN ad_artists + 2 ELSE ad_artists
    /\ UNCHANGED <<ad_kind, ad_x, ad_y, ad_angle, ad_steering, ad_iter_arg,
                   ln_x, ln_y, ln_iter_axis, ln_line, ln_frame, ln_err>>
    /\ UNCHANGED notAd

\* LiveRectangle(ax, x_center, y_center, angle_deg, ...): validation, then
\* the patch
ConstructRectangle ==
    /\ ad_kind = "rectangle"
    /\ ad_state = "new"
    /\ ad_exc' = Rectangle_validate_data(ad_x, ad_y, ad_angle)
    /\ ad_state' = IF ad_exc' = NoExc THEN "built" ELSE "raised"
    /\ ad_artists' = IF ad_exc' = NoExc THEN ad_artists + 1 ELSE ad_artists
    /\ UNCHANGED <<ad_kind, ad_x, ad_y, ad_angle, ad_steering, ad_iter_arg,
                   ln_x, ln_y, ln_iter_axis, ln_line, ln_frame, ln_err>>
    /\ UNCHANGED notAd

\* LiveFancyBBox(ax, x_center, y_center, angle_deg, ...): validation, then
\* the patch
ConstructFancyBBox ==
    /\ ad_kind = "fancy_bbox"
    /\ ad_state = "new"
    /\ ad_exc' = FancyBBox_validate_data(ad_x, ad_y, ad_angle)
    /\ ad_state' = IF ad_exc' = NoExc THEN "built" ELSE "raised"
    /\ ad_artists' = IF ad_exc' = NoExc THEN ad_artists + 1 ELSE ad_artists
    /\ UNCHANGED <<ad_kind, ad_x, ad_y, ad_angle, ad_steering, ad_iter_arg,
                   ln_x, ln_y, ln_iter_axis, ln_line, ln_frame, ln_err>>
    /\ UNCHANGED notAd

\* LiveVLine(ax, x_data): squeeze and the ndim test, then the line
ConstructVLine ==
    /\ ad_kind = "vline"
    /\ ad_state = "new"
    /\ ad_exc' = VLine_validate_data(ad_x)
    /\ ad_state' = IF ad_exc' = NoExc THEN "built" ELSE "raised"
    /\ ad_artists' = IF ad_exc' = NoExc THEN ad_artists + 1 ELSE ad_artists
    /\ UNCHANGED <<ad_kind, ad_x, ad_y, ad_angle, ad_steering, ad_iter_arg,
                   ln_x, ln_y, ln_iter_axis, ln_line, ln_frame, ln_err>>
    /\ UNCHANGED notAd

\* create_live_vehicle(ax, x_center, y_center, angle_deg, steering_deg):
\* validation, then the body and one LiveFancyBBox per tire (no image)
ConstructVehicle ==
    /\ ad_kind = "vehicle"
    /\ ad_state = "new"
    /\ ad_exc' = Vehicle_validate_data(ad_x, ad_y, ad_angle, ad_steering)
    /\ ad_state' = IF ad_exc' = NoExc THEN "built" ELSE "raised"
    /\ ad_artists' = IF ad_exc' = NoExc THEN ad_artists + 1 + NumTires
                     ELSE ad_artists
    /\ UNCHANGED <<ad_kind, ad_x, ad_y, ad_angle, ad_steering, ad_iter_arg,
                   ln_x, ln_y, ln_iter_axis, ln_line, ln_frame, ln_err>>
    /\ UNCHANGED notAd

Kinds == {"line", "comet", "rectangle", "fancy_bbox", "vline", "vehicle"}

\* the arguments of one constructor call; an argument the adapter does not
\* take is given the shape of x
AdInit ==
    /\ ad_kind \in Kinds
    /\ ad_x \in Shapes
    /\ ad_y \in IF ad_kind = "vline" THEN {ad_x} ELSE Shapes
    /\ ad_angle \in IF ad_kind \in {"rectangle", "fancy_bbox", "vehicle"}
                    THEN Shapes ELSE {ad_x}
    /\ ad_steering \in IF ad_kind = "vehicle" THEN Shapes ELSE {ad_x}
    /\ Cardinality({ad_x, ad_y, ad_angle, ad_steering}) <= 2
    /\ ad_iter_arg \in IF ad_kind = "line" THEN IterArgs ELSE {0}
    /\ ad_state = "new"
    /\ ad_exc = NoExc
    /\ ad_artists = 0
    /\ ln_x = NoArray
    /\ ln_y = NoArray
    /\ ln_iter_axis = ad_iter_arg
    /\ ln_line = <<NoArray, NoArray>>
    /\ ln_frame = 0 - 1
    /\ ln_err = "none"

AdNext ==
    \/ ConstructLine
    \/ \E idx \in Frames : LineUpdate(idx)
    \/ ConstructComet
    \/ ConstructRectangle
    \/ ConstructFancyBBox
    \/ ConstructVLine
    \/ ConstructVehicle

(***************************************************************************)
(* Claims about the adapters' constructors and LiveLine (checked under     *)
(* SpecAdapters).                                                          *)
(***************************************************************************)
\* the cells a function holds
RangeOf(f) == { f[j] : j \in DOMAIN f }

\* the axis of the supplied data a LiveLine is asked to iterate over: the
\* only axis of 1-D data, the iter_axis argument otherwise
SuppliedIterAxis == IF Len(ad_x) = 1 THEN 0 ELSE ad_iter_arg

\* the cells of the supplied array `name` at position idx of the axis
CellsAt(name, idx, axis) ==
    { <<name, i>> : i \in { k \in ArrayIndices(ad_x) : k[axis + 1] = idx } }

\* C11: for a LiveLine built from equal-shaped data (of one or two
\* dimensions) whose iteration axis has N samples, the line at frame idx in
\* [0, N-1] holds exactly the coordinate pairs at position idx of that axis;
\* for 1-D x and y it is the one pair (x[idx], y[idx]).
C11_LineShowsPairsAtIdx ==
    (/\ ad_kind = "line"
     /\ ad_x = ad_y
     /\ Len(ad_x) <= 2
     /\ SuppliedIterAxis \in 0..(Len(ad_x) - 1)
     /\ ad_state # "new") =>
        /\ ad_state = "built"
        /\ ln_frame \in 0..(ad_x[SuppliedIterAxis + 1] - 1) =>
            /\ ln_err = "none"
            /\ RangeOf(ln_line[1].data) = CellsAt("x", ln_frame, SuppliedIterAxis)
            /\ RangeOf(ln_line[2].data) = CellsAt("y", ln_frame, SuppliedIterAxis)
            /\ DOMAIN ln_line[1].data = DOMAIN ln_line[2].data
            /\ \A j \in DOMAIN ln_line[1].data :
                   ln_line[1].data[j][2] = ln_line[2].data[j][2]

\* C12: a LiveLine, LiveComet or LiveRectangle constructed with x and y of
\* different shapes fails with InconsistentArrayShape carrying both shapes,
\* and no drawable has been created.
C12_DifferentShapesRaise ==
    (/\ ad_kind \in {"line", "comet", "rectangle"}
     /\ ad_x # ad_y
     /\ ad_state # "new") =>
        /\ ad_state = "raised"
        /\ ad_exc.name = "InconsistentArrayShape"
        /\ Len(ad_exc.a) >= 1
        /\ Len(ad_exc.b) >= 1
        /\ ad_artists = 0

\* the iter_axis argument is outside [0, ndim) of the supplied data
IterArgOutside == ad_iter_arg < 0 \/ ad_iter_arg >= Len(ad_x)

C14_MultiDimRaisesNot1D ==
    (/\ ad_kind \in {"comet", "rectangle", "fancy_bbox", "vline", "vehicle"}
     /\ ad_y = ad_x
     /\ ad_angle = ad_x
     /\ ad_steering = ad_x
     /\ Len(ad_x) > 1
     /\ ad_state # "new") =>
        /\ ad_state = "raised"
        /\ ad_exc.name = "ArrayNot1D"
        /\ ad_artists = 0

(***************************************************************************)
(* LiveStreamlines (live_streamlines.py): the precomputation of the cache  *)
(* by a process pool, the update of the artists from the cache, and the    *)
(* pickle round trip.  A drawable is named by the frame data it was        *)
(* computed from; an unpickled drawable is a copy of the pickled one.      *)
(***************************************************************************)
\* most epochs of the field data
MaxStEpochs == 3
\* most arrows calc_streamplot makes for one frame
MaxArrows == 1
\* most worker processes
MaxWorkers == 2
\* warnings are counted up to this
MaxWarn == 2

NoTask == 0 - 1
Unset == [obj |-> "unset"]
NoFile == [keys |-> {}]
NotLoaded == [state |-> "none"]

\* an arrow some other code has put on the same axes
UserArrow == [obj |-> "arrow", from |-> <<>>, k |-> 0]

Workers == 1..st_workers

\* calc_streamlines: zip(ulist, vlist, clist)[i], the slices [..., i] of
\* u_data, v_data and color_data, each named by its position
Streamlines_args(i) == <<i, i, i>>

\* pool_func: calc_streamplot(u, v, color) returns a line collection and the
\* list of arrows of the frame
pool_func(args) ==
    [lines |-> [obj |-> "lines", from |-> args],
     arrows |-> { [obj |-> "arrow", from |-> args, k |-> k] :
                  k \in 1..st_n_arrows[args[1] + 1] }]

\* Pool.imap: the results the iterator can yield when k were yielded: the
\* one of task k (imap keeps the order of the tasks)
imap_next_unordered(ready, k) == ready
imap_next(ready, k) == { r \in ready : r.task = k }

\* list.__getitem__ raises IndexError
PyList_raises(a, i) == i >= Len(a) \/ i < 0 - Len(a)

\* _get_plot_data: the message handed to warnings.warn is the parenthesised
\* expression ('...' '...',), a one-element tuple and not a string
Streamlines_warning_is_str == FALSE

\* warnings.warn(message): every installed filter that has a message pattern
\* is matched against the text (pattern.match(text)); the text of a message
\* that is no Warning instance is the message itself, and matching a
\* non-string raises TypeError
PyWarn_raises(message_is_str, filters_have_pattern) ==
    filters_have_pattern /\ ~message_is_str

\* _current_arrows: every FancyArrowPatch among the children of the axes
Streamlines_current_arrows(ax) == { o \in ax : o.obj = "arrow" }

\* _update_artists(lines, arrows): the children of the axes afterwards
Streamlines_update_artists_keep_old(ax, current, lines, arrows) ==
    (ax \ Streamlines_current_arrows(ax)) \cup {lines} \cup arrows
Streamlines_update_artists(ax, current, lines, arrows) ==
    ((ax \ {current}) \ Streamlines_current_arrows(ax)) \cup {lines} \cup arrows

\* the fields of LiveStreamlines.__init__ that have no default
Streamlines_init_required ==
    {"ax", "x_data", "y_data", "u_data", "v_data", "color_data"}

\* the keys of asdict()
Streamlines_asdict_keys ==
    {"x_data", "y_data", "u_data", "v_data", "color_data",
     "_streamlines", "_streamarrows"}

\* pickle.load of what pickle.dump wrote: an equal copy of the object
Unpickled(o) == [obj |-> "copy", of |-> o]

StInit ==
    /\ st_epochs \in 1..MaxStEpochs
    /\ st_n_arrows \in [1..st_epochs -> 0..MaxArrows]
    /\ st_workers \in 1..MaxWorkers
    /\ st_calc = "idle"
    /\ st_next_task = 0
    /\ st_busy = [w \in Workers |-> NoTask]
    /\ st_ready = {}
    /\ st_results = <<>>
    /\ st_streamlines = <<>>
    /\ st_streamarrows = <<>>
    /\ st_current_lines = Unset
    /\ st_ax \in {{}, {UserArrow}}
    /\ st_warnings = 0
    /\ st_req = NoIdx
    /\ st_upd = "none"
    /\ st_prev_lines = Unset
    /\ st_overtaken = FALSE
    /\ st_file = NoFile
    /\ st_loaded = NotLoaded

\* calc_streamlines up to the first pool.imap result: the argument lists are
\* built and the pool is started
CalcStart ==
    /\ st_calc = "idle"
    /\ st_calc' = "running"
    /\ st_next_task' = 0
    /\ st_busy' = [w \in Workers |-> NoTask]
    /\ st_ready' = {}
    /\ st_results' = <<>>
    /\ UNCHANGED <<st_epochs, st_n_arrows, st_workers, st_streamlines,
                   st_streamarrows, st_current_lines, st_ax, st_warnings,
                   st_req, st_upd, st_file, st_loaded>>
    /\ UNCHANGED <<st_prev_lines, st_overtaken>>
    /\ UNCHANGED notSt

\* an idle worker takes the next task of the pool's queue
WorkerTake(w) ==
    /\ w \in Workers
    /\ st_calc = "running"
    /\ st_busy[w] = NoTask
    /\ st_next_task < st_epochs
    /\ st_busy' = [st_busy EXCEPT ![w] = st_next_task]
    /\ st_next_task' = st_next_task + 1
    /\ UNCHANGED <<st_epochs, st_n_arrows, st_workers, st_calc, st_ready,
                   st_results, st_streamlines, st_streamarrows,
                   st_current_lines, st_ax, st_warnings, st_req, st_upd,
                   st_file, st_loaded>>
    /\ UNCHANGED <<st_prev_lines, st_overtaken>>
    /\ UNCHANGED notSt

\* a worker finishes pool_func for its task and sends the result back
WorkerFinish(w) ==
    /\ w \in Workers
    /\ st_calc = "running"
    /\ st_busy[w] # NoTask
    /\ st_ready' = st_ready \cup
           {[task |-> st_busy[w], item |-> pool_func(Streamlines_args(st_busy[w]))]}
    /\ st_busy' = [st_busy EXCEPT ![w] = NoTask]
    /\ st_overtaken' = (st_overtaken \/
                         \E v \in Workers : st_busy[v] # NoTask /\ st_busy[v] < st_busy[w])
    /\ UNCHANGED <<st_epochs, st_n_arrows, st_workers, st_calc, st_next_task,
                   st_results, st_streamlines, st_streamarrows,
                   st_current_lines, st_ax, st_warnings, st_req, st_upd,
                   st_file, st_loaded>>
    /\ UNCHANGED <<st_prev_lines>>
    /\ UNCHANGED notSt

\* `for item in pool.imap(...): results.append(item)`: one iteration
CalcCollect ==
    /\ st_calc = "running"
    /\ \E r \in imap_next(st_ready, Len(st_results)) :
           /\ st_results' = Append(st_results, r.item)
           /\ st_ready' = st_ready \ {r}
    /\ UNCHANGED <<st_epochs, st_n_arrows, st_workers, st_calc, st_next_task,
                   st_busy, st_streamlines, st_streamarrows, st_current_lines,
                   st_ax, st_warnings, st_req, st_upd, st_file, st_loaded>>
    /\ UNCHANGED <<st_prev_lines, st_overtaken>>
    /\ UNCHANGED notSt

\* the iterator is exhausted: _streamlines and _streamarrows are set
CalcFinish ==
    /\ st_calc = "running"
    /\ Len(st_results) = st_epochs
    /\ st_calc' = "done"
    /\ st_streamlines' = [i \in 1..Len(st_results) |-> st_results[i].lines]
    /\ st_streamarrows' = [i \in 1..Len(st_results) |-> st_results[i].arrows]
    /\ UNCHANGED <<st_epochs, st_n_arrows, st_workers, st_next_task, st_busy,
                   st_ready, st_results, st_current_lines, st_ax, st_warnings,
                   st_req, st_upd, st_file, st_loaded>>
    /\ UNCHANGED <<st_prev_lines, st_overtaken>>
    /\ UNCHANGED notSt

\* the frame indices handed to the adapter
StFrames == 0..(MaxStEpochs - 1)

\* an update for frame idx: _update_artists(*_get_plot_data(idx)), on the
\* main thread (not while calc_streamlines runs). With an empty cache
\* _get_plot_data calls warnings.warn before it returns (None, None), and
\* _update_artists returns at `lines is None`; the warning filters installed
\* in the process are an input of the call
StUpdate(idx) ==
    /\ st_calc # "running"
    /\ IF Len(st_streamlines) = 0
       THEN /\ \E filters_have_pattern \in BOOLEAN :
                 IF PyWarn_raises(Streamlines_warning_is_str,
                                  filters_have_pattern)
                 THEN /\ st_upd' = "TypeError"
                      /\ UNCHANGED st_warnings
                 ELSE /\ st_upd' = "empty"
                      /\ st_warnings' = Min(st_warnings + 1, MaxWarn)
            /\ UNCHANGED <<st_current_lines, st_ax, st_prev_lines, st_req>>
       ELSE IF PyList_raises(st_streamlines, idx)
       THEN /\ st_req' = idx
            /\ st_upd' = "IndexError"
            /\ UNCHANGED <<st_current_lines, st_ax, st_warnings, st_prev_lines>>
       ELSE /\ st_req' = idx
            /\ st_upd' = "updated"
            /\ st_ax' = Streamlines_update_artists(st_ax, st_current_lines,
                            st_streamlines[idx + 1], st_streamarrows[idx + 1])
            /\ st_current_lines' = st_streamlines[idx + 1]
            /\ st_prev_lines' = st_current_lines
            /\ UNCHANGED st_warnings
    /\ UNCHANGED <<st_epochs, st_n_arrows, st_workers, st_calc, st_next_task,
                   st_busy, st_ready, st_results, st_streamlines,
                   st_streamarrows, st_file, st_loaded>>
    /\ UNCHANGED <<st_overtaken>>
    /\ UNCHANGED notSt

\* pickle(path): pickle.dump(self.asdict(), file)
StPickle ==
    /\ st_calc # "running"
    /\ st_file' = [keys |-> Streamlines_asdict_keys,
                   streamlines |-> st_streamlines,
                   streamarrows |-> st_streamarrows]
    /\ st_loaded' = NotLoaded
    /\ UNCHANGED <<st_epochs, st_n_arrows, st_workers, st_calc, st_next_task,
                   st_busy, st_ready, st_results, st_streamlines,
                   st_streamarrows, st_current_lines, st_ax, st_warnings,
                   st_req, st_upd>>
    /\ UNCHANGED <<st_prev_lines, st_overtaken>>
    /\ UNCHANGED notSt

\* load_from_pickle(path): cls(**pickle.load(file)); the dataclass __init__
\* raises TypeError when a field without default is not among the keywords
StLoad ==
    /\ st_calc # "running"
    /\ st_file # NoFile
    /\ st_loaded' =
           IF Streamlines_init_required \subseteq st_file.keys
           THEN [state |-> "built",
                 streamlines |-> [i \in 1..Len(st_file.streamlines) |->
                                      Unpickled(st_file.streamlines[i])],
                 streamarrows |-> [i \in 1..Len(st_file.streamarrows) |->
                                      { Unpickled(a) : a \in st_file.streamarrows[i] }]]
           ELSE [state |-> "raised", exc |-> "TypeError"]
    /\ UNCHANGED <<st_epochs, st_n_arrows, st_workers, st_calc, st_next_task,
                   st_busy, st_ready, st_results, st_streamlines,
                   st_streamarrows, st_current_lines, st_ax, st_warnings,
                   st_req, st_upd, st_file>>
    /\ UNCHANGED <<st_prev_lines, st_overtaken>>
    /\ UNCHANGED notSt

StNext ==
    \/ CalcStart
    \/ \E w \in 1..MaxWorkers : WorkerTake(w)
    \/ \E w \in 1..MaxWorkers : WorkerFinish(w)
    \/ CalcCollect
    \/ CalcFinish
    \/ \E idx \in StFrames : StUpdate(idx)
    \/ StPickle
    \/ StLoad

(***************************************************************************)
(* Claims about LiveStreamlines (checked under SpecStreamlines).           *)
(***************************************************************************)
\* the line collections on the axes
LinesOnAxes == { o \in st_ax : o.obj = "lines" }

\* the arrows on the axes that came from the adapter's cache
CacheArrowsOnAxes == { o \in st_ax : o.obj = "arrow" /\ o # UserArrow }

C16_ResultsInFrameOrder ==
    st_calc = "done" =>
        /\ Len(st_streamlines) = st_epochs
        /\ Len(st_streamarrows) = st_epochs
        /\ \A i \in 1..st_epochs :
               /\ st_streamlines[i].obj = "lines"
               /\ st_streamlines[i].from = <<i - 1, i - 1, i - 1>>
               /\ Cardinality(st_streamarrows[i]) = st_n_arrows[i]
               /\ \A a \in st_streamarrows[i] : a.from = <<i - 1, i - 1, i - 1>>

\* C16 witness: calc_streamlines is done and a later frame was finished
\* before an earlier one.
C16_Witness ==
    /\ st_calc = "done"
    /\ st_overtaken
    /\ st_epochs >= 3

\* C17: for an adapter with a precomputed cache, pickle(path) followed by
\* load_from_pickle(path) yields an adapter whose cache has as many frames
\* and, frame by frame, the same line collection and as many arrows as the
\* pickled one.
C17_PickleRoundTrip ==
    (st_loaded # NotLoaded /\ Len(st_file.streamlines) > 0) =>
        /\ st_loaded.state = "built"
        /\ Len(st_loaded.streamlines) = Len(st_file.streamlines)
        /\ Len(st_loaded.streamarrows) = Len(st_file.streamarrows)
        /\ \A i \in 1..Len(st_file.streamlines) :
               /\ st_loaded.streamlines[i] = Unpickled(st_file.streamlines[i])
               /\ Cardinality(st_loaded.streamarrows[i])
                      = Cardinality(st_file.streamarrows[i])

\* a step that is an update of the adapter while its cache is empty
UpdateOnEmptyCache ==
    /\ Len(st_streamlines) = 0
    /\ (st_upd' # st_upd \/ st_warnings' # st_warnings)

C30_EmptyUpdateStep ==
    UpdateOnEmptyCache =>
        /\ st_upd' = "empty"
        /\ st_warnings' = Min(st_warnings + 1, MaxWarn)
        /\ st_ax' = st_ax
        /\ st_current_lines' = st_current_lines

\* C30: while neither calc_streamlines nor load_from_pickle has filled the
\* cache, an update for any frame emits a warning and raises nothing, and
\* the children of the axes are the ones they were: nothing removed, nothing
\* added.
C30_EmptyCacheUpdateWarnsAndKeepsAxes == [][C30_EmptyUpdateStep]_vars

(***************************************************************************)
(* Tab (tab.py): the registered plots and the four actions that move them. *)
(* Each action is one loop over Tab._plots; an exception of a plot's       *)
(* _update_plot leaves the loop, and the plots after it are not reached.   *)
(***************************************************************************)
\* most plots registered on a Tab
MaxTabPlots == 2

\* Tab._plots in the order of the `for plot in self._plots` loops:
\* register_plot appends, so plot k is the k-th one registered
Tab_plots_reversed(n) == [k \in 1..n |-> n + 1 - k]
Tab_plots(n) == [k \in 1..n |-> k]

\* the index method a Tab action calls on a plot: the new value of _idx
Tab_move(action, idx, step, T) ==
    CASE action = "increment" -> LiveBase_increment(idx, step, T)
      [] action = "decrement" -> LiveBase_decrement(idx, step)
      [] action = "end" -> LiveBase_jump_to_end(T)
      [] action = "begin" -> LiveBase_jump_to_beginning(idx)

\* _update_plot reads data[_idx]: a Python index outside [-T, T-1] raises
\* IndexError
Tab_update_raises(idx, T) == idx > T - 1 \/ idx < 0 - T

RECURSIVE Tab_for_all(_, _, _, _, _)
\* `for plot in self._plots: plot.<move>(step); plot._update_plot()` over the
\* plots of `order` still to visit, from the record st of indices, updated
\* plots and exception
Tab_for_all(action, step, lens, order, st) ==
    IF order = <<>> THEN st
    ELSE LET p == Head(order)
             i == Tab_move(action, st.idx[p], step, lens[p])
             moved == [st.idx EXCEPT ![p] = i]
         IN IF Tab_update_raises(i, lens[p])
            THEN [idx |-> moved, log |-> st.log, exc |-> "IndexError"]
            ELSE Tab_for_all(action, step, lens, Tail(order),
                             [idx |-> moved, log |-> Append(st.log, p),
                              exc |-> "none"])

\* a Tab action from the current state
Tab_take_action(action, step) ==
    Tab_for_all(action, step, tb_lens, Tab_plots(Len(tb_lens)),
                [idx |-> tb_idx, log |-> <<>>, exc |-> "none"])

TabSameLen == \A p, q \in 1..Len(tb_lens) : tb_lens[p] = tb_lens[q]
TabSameIdx == \A p, q \in 1..Len(tb_idx) : tb_idx[p] = tb_idx[q]

\* every current index is an index of its plot's data (the range of C1)
TabIdxInData == \A p \in 1..Len(tb_idx) : tb_idx[p] \in 0..(tb_lens[p] - 1)

\* the plots are in step before a Tab action with this step
TabTogether(step) == TabSameLen /\ TabSameIdx /\ TabIdxInData /\ step >= 0

\* the step arguments of the Tab actions: the steps of the Window and,
\* as LiveBase accepts them, zero and a negative one
TabSteps == (0 - 1)..MaxStep

\* indices of registered plots are followed one past the data on both sides
TabCap(i) == i \in (0 - MaxLen - 1)..MaxLen

TbInit ==
    /\ tb_lens = <<>>
    /\ tb_idx = <<>>
    /\ tb_log = <<>>
    /\ tb_exc = "none"
    /\ tb_together = FALSE

\* Tab.register_plot(plot) with a fresh plot of len_data T
RegisterPlot(T) ==
    /\ Len(tb_lens) < MaxTabPlots
    /\ tb_lens' = Append(tb_lens, T)
    /\ tb_idx' = Append(tb_idx, 0)
    /\ tb_together' = FALSE
    /\ UNCHANGED <<tb_log, tb_exc>>
    /\ UNCHANGED notTab

\* Tab._increment_all(step)
Tab_increment_all(step) ==
    LET r == Tab_take_action("increment", step) IN
    /\ \A p \in 1..Len(tb_lens) : TabCap(r.idx[p])
    /\ tb_idx' = r.idx
    /\ tb_log' = r.log
    /\ tb_exc' = r.exc
    /\ tb_together' = TabTogether(step)
    /\ UNCHANGED tb_lens
    /\ UNCHANGED notTab

\* Tab._decrement_all(step)
Tab_decrement_all(step) ==
    LET r == Tab_take_action("decrement", step) IN
    /\ \A p \in 1..Len(tb_lens) : TabCap(r.idx[p])
    /\ tb_idx' = r.idx
    /\ tb_log' = r.log
    /\ tb_exc' = r.exc
    /\ tb_together' = TabTogether(step)
    /\ UNCHANGED tb_lens
    /\ UNCHANGED notTab

\* Tab._jump_all_to_end()
Tab_jump_all_to_end ==
    LET r == Tab_take_action("end", 0) IN
    /\ \A p \in 1..Len(tb_lens) : TabCap(r.idx[p])
    /\ tb_idx' = r.idx
    /\ tb_log' = r.log
    /\ tb_exc' = r.exc
    /\ tb_together' = TabTogether(0)
    /\ UNCHANGED tb_lens
    /\ UNCHANGED notTab

\* Tab._jump_all_to_beginning()
Tab_jump_all_to_beginning ==
    LET r == Tab_take_action("begin", 0) IN
    /\ \A p \in 1..Len(tb_lens) : TabCap(r.idx[p])
    /\ tb_idx' = r.idx
    /\ tb_log' = r.log
    /\ tb_exc' = r.exc
    /\ tb_together' = TabTogether(0)
    /\ UNCHANGED tb_lens
    /\ UNCHANGED notTab

TbNext ==
    \/ \E T \in 1..MaxLen : RegisterPlot(T)
    \/ \E step \in TabSteps : Tab_increment_all(step)
    \/ \E step \in TabSteps : Tab_decrement_all(step)
    \/ Tab_jump_all_to_end
    \/ Tab_jump_all_to_beginning

ArtistKinds == {"line", "comet", "rectangle", "fancy_bbox", "circle", "image",
                "quiver", "stackbar", "vline"}

\* the artist fields `artists` reads, in the order of the list it returns;
\* for LiveStackBar chain(*self._bar_cts): container by container, the
\* patches of a container bar by bar
Adapter_artist_fields(kind, bars, stacks) ==
    CASE kind = "line" -> << <<"_line">> >>
      [] kind = "comet" -> << <<"_head">>, <<"_tail">> >>
      [] kind = "rectangle" -> << <<"_patch">> >>
      [] kind = "fancy_bbox" -> << <<"_patch">> >>
      [] kind = "circle" -> << <<"_patch">> >>
      [] kind = "image" -> << <<"_image">> >>
      [] kind = "quiver" -> << <<"_quiver">> >>
      [] kind = "vline" -> << <<"_line">> >>
      [] kind = "stackbar" ->
             [k \in 1..(stacks * bars) |->
                 <<"_bar_cts", ((k - 1) \div bars) + 1, ((k - 1) % bars) + 1>>]

\* the `artists` property: the objects the fields refer to
Adapter_artists(kind, bars, stacks, fields) ==
    [k \in 1..Len(Adapter_artist_fields(kind, bars, stacks)) |->
        fields[Adapter_artist_fields(kind, bars, stacks)[k]]]

\* the constructor: one new drawable per artist field, showing frame 0
Adapter_create(kind, bars, stacks) ==
    LET names == Adapter_artist_fields(kind, bars, stacks) IN
    [fields |-> [f \in {names[k] : k \in 1..Len(names)} |->
                    CHOOSE k \in 1..Len(names) : names[k] = f],
     heap |-> [o \in 1..Len(names) |-> 0]]

\* _update_artists for frame idx: the setters of the objects the fields
\* refer to are called, no field is assigned
Adapter_update_artists_recreate(fields, heap, idx) ==
    LET n == Cardinality(DOMAIN heap) IN
    [fields |-> [f \in DOMAIN fields |-> fields[f] + n],
     heap |-> [o \in 1..(2 * n) |-> IF o > n THEN idx ELSE heap[o]]]
Adapter_update_artists(fields, heap, idx) ==
    [fields |-> fields,
     heap |-> [o \in DOMAIN heap |->
                  IF \E f \in DOMAIN fields : fields[f] = o THEN idx
                  ELSE heap[o]]]

ArInit ==
    /\ ar_kind \in ArtistKinds
    /\ ar_len \in 1..MaxLen
    /\ ar_bars \in 1..MaxBars
    /\ ar_stacks \in 1..MaxStacks
    /\ ar_kind # "stackbar" => ar_bars = 1 /\ ar_stacks = 1
    /\ ar_state = "new"
    /\ ar_fields = <<>>
    /\ ar_heap = <<>>
    /\ ar_built = <<>>
    /\ ar_err = "none"

\* the constructor of the adapter
ConstructAdapter ==
    /\ ar_state = "new"
    /\ ar_state' = "built"
    /\ ar_fields' = Adapter_create(ar_kind, ar_bars, ar_stacks).fields
    /\ ar_heap' = Adapter_create(ar_kind, ar_bars, ar_stacks).heap
    /\ ar_built' = Adapter_artists(ar_kind, ar_bars, ar_stacks, ar_fields')
    /\ UNCHANGED <<ar_kind, ar_len, ar_bars, ar_stacks, ar_err>>
    /\ UNCHANGED notAr

\* a frame update for index idx: _get_plot_data raises IndexError past the
\* data, otherwise _update_artists runs
UpdateAdapter(idx) ==
    /\ ar_state = "built"
    /\ IF idx >= ar_len
       THEN /\ ar_err' = "IndexError"
            /\ UNCHANGED <<ar_fields, ar_heap>>
       ELSE /\ ar_err' = "none"
            /\ ar_fields' = Adapter_update_artists(ar_fields, ar_heap, idx).fields
            /\ ar_heap' = Adapter_update_artists(ar_fields, ar_heap, idx).heap
    /\ UNCHANGED <<ar_kind, ar_len, ar_bars, ar_stacks, ar_state, ar_built>>
    /\ UNCHANGED notAr

ArNext ==
    \/ ConstructAdapter
    \/ \E idx \in 0..(MaxLen - 1) : UpdateAdapter(idx)

MaxAngle == 1

\* the shapes the four arrays are drawn from
VehShapes == {sh \in Shapes : Len(sh) <= 2 /\ Product(sh) <= 2}

\* an array of angles: its shape and its values in flattened order
AngleArrays ==
    UNION { {[shape |-> sh, data |-> d] : d \in [1..Product(sh) -> 0..MaxAngle]} :
            sh \in VehShapes }

\* _TireEnum in definition order, the order `for tire in _TireEnum` visits
TireEnum == <<"FL", "FR", "RL", "RR">>

\* _calc_tire_angle
Vehicle_calc_tire_angle(psi_deg, delta_deg) ==
    [i \in DOMAIN psi_deg |-> psi_deg[i] + delta_deg[i]]

\* _create_tire: the angle_deg handed to LiveFancyBBox
Vehicle_tire_angle(psi_deg, delta_deg, tire) ==
    IF tire = "FL" \/ tire = "FR"
    THEN Vehicle_calc_tire_angle(psi_deg, delta_deg)
    ELSE psi_deg

\* _create_vehicle_body
Vehicle_create_body(psi_deg) ==
    [class |-> "LiveFancyBBox", part |-> "body", angle_deg |-> psi_deg]

\* _create_tire
Vehicle_create_tire(psi_deg, delta_deg, tire) ==
    [class |-> "LiveFancyBBox", part |-> tire,
     angle_deg |-> Vehicle_tire_angle(psi_deg, delta_deg, tire)]

\* the parameters LiveImage.__init__ has no default for, and the keywords
\* _create_image calls it with
LiveImage_init_required ==
    {"ax", "x_center", "y_center", "angle_deg", "image_extent", "image_path"}
LiveImage_init_optional == {"animated", "plot_kwargs"}
Vehicle_create_image_keywords ==
    {"ax", "x_data", "y_data", "theta_rad", "image_extent", "image_path",
     "plot_kwargs"}

\* a call by keywords raises TypeError when a keyword is no parameter or a
\* parameter without default gets no value
PyKeywordCallRaises(required, optional, keywords) ==
    \/ keywords \ (required \cup optional) # {}
    \/ required \ keywords # {}

\* _create_image
Vehicle_create_image(psi_deg) ==
    [class |-> "LiveImage", part |-> "image", angle_deg |-> psi_deg]

VhInit ==
    /\ vh_x \in VehShapes
    /\ vh_y \in VehShapes
    /\ vh_psi \in AngleArrays
    /\ vh_delta \in AngleArrays
    /\ Cardinality({vh_x, vh_y, vh_psi.shape, vh_delta.shape}) <= 2
    /\ vh_image \in BOOLEAN
    /\ vh_state = "new"
    /\ vh_exc = NoExc
    /\ vh_created = <<>>
    /\ vh_plots = <<>>

\* create_live_vehicle(ax, x_center, y_center, angle_deg, steering_deg, config)
CreateLiveVehicle ==
    LET exc == Vehicle_validate_data(vh_x, vh_y, vh_psi.shape, vh_delta.shape)
        body == Vehicle_create_body(vh_psi.data)
        tires == [k \in 1..Len(TireEnum) |->
                     Vehicle_create_tire(vh_psi.data, vh_delta.data, TireEnum[k])]
        plots == <<body>> \o tires
    IN
    /\ vh_state = "new"
    /\ IF exc # NoExc
       THEN /\ vh_state' = "raised"
            /\ vh_exc' = exc
            /\ UNCHANGED <<vh_created, vh_plots>>
       ELSE IF ~vh_image
       THEN /\ vh_state' = "returned"
            /\ vh_created' = plots
            /\ vh_plots' = plots
            /\ UNCHANGED vh_exc
       ELSE IF PyKeywordCallRaises(LiveImage_init_required,
                                   LiveImage_init_optional,
                                   Vehicle_create_image_keywords)
       THEN /\ vh_state' = "raised"
            /\ vh_exc' = [name |-> "TypeError"]
            /\ vh_created' = plots
            /\ UNCHANGED vh_plots
       ELSE /\ vh_state' = "returned"
            /\ vh_created' = Append(plots, Vehicle_create_image(vh_psi.data))
            /\ vh_plots' = Append(plots, Vehicle_create_image(vh_psi.data))
            /\ UNCHANGED vh_exc
    /\ UNCHANGED <<vh_x, vh_y, vh_psi, vh_delta, vh_image>>
    /\ UNCHANGED notVh

VhNext == CreateLiveVehicle

(***************************************************************************)
(* Claims about create_live_vehicle (checked under SpecVehicle).           *)
(***************************************************************************)
VehShapesAgree ==
    /\ vh_x = vh_y
    /\ vh_x = vh_psi.shape
    /\ vh_x = vh_delta.shape

\* the list the claim describes for 1-D arrays of one shape
VehExpectedParts ==
    IF vh_image THEN <<"body", "FL", "FR", "RL", "RR", "image">>
    ELSE <<"body", "FL", "FR", "RL", "RR">>

VehListAsClaimed ==
    /\ vh_state = "returned"
    /\ [k \in 1..Len(vh_plots) |-> vh_plots[k].part] = VehExpectedParts
    /\ \A k \in 1..Len(vh_plots) :
           /\ vh_plots[k].part \in {"FL", "FR"} =>
                  \A i \in DOMAIN vh_psi.data :
                      vh_plots[k].angle_deg[i] = vh_psi.data[i] + vh_delta.data[i]
           /\ vh_plots[k].part \in {"RL", "RR"} =>
                  vh_plots[k].angle_deg = vh_psi.data

\* C23: for arrays that pass validation create_live_vehicle returns the
\* body, the tires FL, FR, RL, RR and, exactly when config.image_path is set,
\* an image adapter; the front tires turn by heading + steering, the rear
\* ones by the heading; arrays of different shapes are rejected before any
\* adapter is created.
C23_VehicleListAsClaimed ==
    vh_state # "new" =>
        /\ (VehShapesAgree /\ Len(vh_x) = 1) => VehListAsClaimed
        /\ ~VehShapesAgree => vh_state = "raised" /\ vh_created = <<>>

(***************************************************************************)
(* LiveBase.update_axis_limits (live_base.py:174-198).  Limits are         *)
(* integers and the scale factors the integers 1 .. MaxScale; the default  *)
(* factor 1.05 scales a limit the same way, by a factor above 1.           *)
(***************************************************************************)
\* x limits are -MaxLim .. MaxLim before the first call
MaxLim == 2
\* largest scale_factor
MaxScale == 2
\* y limits are -MaxYLim .. MaxYLim before the first call
MaxYLim == 1

\* limits are followed up to this magnitude
LimCap == MaxLim * MaxScale * MaxScale

ScaleFactors == 1..MaxScale

\* lower and upper limits of the two axes, lower < upper
LimitBoxes ==
    {[xl |-> a, xr |-> b, yb |-> c, yt |-> d] :
        a \in (0 - MaxLim)..MaxLim, b \in (0 - MaxLim)..MaxLim,
        c \in (0 - MaxYLim)..MaxYLim, d \in (0 - MaxYLim)..MaxYLim}

\* update_axis_limits: the limits handed to set_xlim and set_ylim
LiveBase_update_axis_limits(data, ax, scale_factor) ==
    [xl |-> Min(data.xl, ax.xl) * scale_factor,
     xr |-> Max(data.xr, ax.xr) * scale_factor,
     yb |-> Min(data.yb, ax.yb) * scale_factor,
     yt |-> Max(data.yt, ax.yt) * scale_factor]

LmInit ==
    /\ lm_data \in {b \in LimitBoxes : b.xl < b.xr /\ b.yb < b.yt}
    /\ lm_ax \in {b \in LimitBoxes : b.xl < b.xr /\ b.yb < b.yt}
    /\ lm_prev = lm_ax
    /\ lm_scale = 0

\* plot.update_axis_limits(scale_factor)
UpdateAxisLimits(scale_factor) ==
    LET new == LiveBase_update_axis_limits(lm_data, lm_ax, scale_factor) IN
    /\ \A side \in DOMAIN new : new[side] \in (0 - LimCap)..LimCap
    /\ lm_ax' = new
    /\ lm_prev' = lm_ax
    /\ lm_scale' = scale_factor
    /\ UNCHANGED lm_data
    /\ UNCHANGED notLm

LmNext == \E scale_factor \in ScaleFactors : UpdateAxisLimits(scale_factor)

(***************************************************************************)
(* Claims about update_axis_limits (checked under SpecLimits).             *)
(***************************************************************************)
\* C25: after update_axis_limits(scale_factor) with scale_factor >= 1 the
\* new limits of the axes contain the previous limits and the data limits on
\* every side, whatever the signs of the limits.
C25_NewLimitsContainOldAndData ==
    lm_scale >= 1 =>
        /\ lm_ax.xl <= Min(lm_prev.xl, lm_data.xl)
        /\ lm_ax.xr >= Max(lm_prev.xr, lm_data.xr)
        /\ lm_ax.yb <= Min(lm_prev.yb, lm_data.yb)
        /\ lm_ax.yt >= Max(lm_prev.yt, lm_data.yt)

\* the state of a component that a specification does not exercise
BaseIdle ==
    /\ len_data = 1
    /\ current_idx = 0
    /\ prev_idx = 0
    /\ last_op = "init"
    /\ last_step = 0
    /\ steps_nonneg = TRUE
    /\ boundary_run = "none"
    /\ run_len = 0

AniIdle ==
    /\ ani_state = "idle"
    /\ n_plots = 1
    /\ num_frames = 1
    /\ keeper_idx = 0
    /\ bound_idx = 0
    /\ frame_no = 0
    /\ drawn = FALSE
    /\ upd_arg = [p \in 1..1 |-> NoIdx]
    /\ captured = <<>>
    /\ completed = 0
    /\ ani_lens = <<1>>
    /\ ani_exc = "none"
    /\ now_state = "not_called"

WinIdle ==
    /\ win_len = 1
    /\ win_idx = 0
    /\ win_step = 1
    /\ update_lock = FALSE
    /\ n_tabs = 1
    /\ tab_idx = [t \in 1..1 |-> 0]
    /\ calls = <<>>
    /\ last_event = "none"
    /\ last_return = [saw_locked |-> FALSE, did_update |-> FALSE, depth |-> 0]
    /\ current_tab_idx = 0

SbIdle ==
    /\ sb_y_data = <<<<<<0>>>>>>
    /\ sb_idx = 0
    /\ sb_patches = <<<<[height |-> 0, y |-> 0]>>>>
    /\ sb_last = "create"
    /\ sb_max_heights = <<0>>

CmIdle ==
    /\ cm_x = <<0>>
    /\ cm_y = <<0>>
    /\ cm_idx = 0
    /\ cm_head = <<0, 0>>
    /\ cm_tail = << <<>>, <<>> >>
    /\ cm_last = "create"

AdIdle ==
    /\ ad_kind = "line"
    /\ ad_x = <<1>>
    /\ ad_y = <<1>>
    /\ ad_angle = <<1>>
    /\ ad_steering = <<1>>
    /\ ad_iter_arg = 0
    /\ ad_state = "idle"
    /\ ad_exc = NoExc
    /\ ad_artists = 0
    /\ ln_x = NoArray
    /\ ln_y = NoArray
    /\ ln_iter_axis = 0
    /\ ln_line = <<NoArray, NoArray>>
    /\ ln_frame = 0 - 1
    /\ ln_err = "none"

StIdle ==
    /\ st_epochs = 1
    /\ st_n_arrows = <<0>>
    /\ st_workers = 1
    /\ st_calc = "idle"
    /\ st_next_task = 0
    /\ st_busy = <<NoTask>>
    /\ st_ready = {}
    /\ st_results = <<>>
    /\ st_streamlines = <<>>
    /\ st_streamarrows = <<>>
    /\ st_current_lines = Unset
    /\ st_ax = {}
    /\ st_warnings = 0
    /\ st_req = NoIdx
    /\ st_upd = "none"
    /\ st_prev_lines = Unset
    /\ st_overtaken = FALSE
    /\ st_file = NoFile
    /\ st_loaded = NotLoaded

TbIdle ==
    /\ tb_lens = <<>>
    /\ tb_idx = <<>>
    /\ tb_log = <<>>
    /\ tb_exc = "none"
    /\ tb_together = FALSE

ArIdle ==
    /\ ar_kind = "line"
    /\ ar_len = 1
    /\ ar_bars = 1
    /\ ar_stacks = 1
    /\ ar_state = "idle"
    /\ ar_fields = <<>>
    /\ ar_heap = <<>>
    /\ ar_built = <<>>
    /\ ar_err = "none"

VhIdle ==
    /\ vh_x = <<1>>
    /\ vh_y = <<1>>
    /\ vh_psi = [shape |-> <<1>>, data |-> <<0>>]
    /\ vh_delta = [shape |-> <<1>>, data |-> <<0>>]
    /\ vh_image = FALSE
    /\ vh_state = "idle"
    /\ vh_exc = NoExc
    /\ vh_created = <<>>
    /\ vh_plots = <<>>

LmIdle ==
    /\ lm_data = [xl |-> 0, xr |-> 1, yb |-> 0, yt |-> 1]
    /\ lm_ax = [xl |-> 0, xr |-> 1, yb |-> 0, yt |-> 1]
    /\ lm_prev = [xl |-> 0, xr |-> 1, yb |-> 0, yt |-> 1]
    /\ lm_scale = 0

InitBase == BaseInit /\ AniIdle /\ WinIdle /\ SbIdle /\ CmIdle /\ AdIdle /\ StIdle /\ TbIdle /\ ArIdle /\ VhIdle /\ LmIdle

SpecBase == InitBase /\ [][BaseNext]_vars

InitAnimate == AniInit /\ BaseIdle /\ WinIdle /\ SbIdle /\ CmIdle /\ AdIdle /\ StIdle /\ TbIdle /\ ArIdle /\ VhIdle /\ LmIdle

SpecAnimate == InitAnimate /\ [][AniNext]_vars

InitWindow == WinInit /\ BaseIdle /\ AniIdle /\ SbIdle /\ CmIdle /\ AdIdle /\ StIdle /\ TbIdle /\ ArIdle /\ VhIdle /\ LmIdle

SpecWindow == InitWindow /\ [][WinNext]_vars

InitStackBar == SbInit /\ BaseIdle /\ AniIdle /\ WinIdle /\ CmIdle /\ AdIdle /\ StIdle /\ TbIdle /\ ArIdle /\ VhIdle /\ LmIdle

SpecStackBar == InitStackBar /\ [][SbNext]_vars

InitComet == CmInit /\ BaseIdle /\ AniIdle /\ WinIdle /\ SbIdle /\ AdIdle /\ StIdle /\ TbIdle /\ ArIdle /\ VhIdle /\ LmIdle

SpecComet == InitComet /\ [][CmNext]_vars

InitAdapters == AdInit /\ BaseIdle /\ AniIdle /\ WinIdle /\ SbIdle /\ CmIdle /\ StIdle /\ TbIdle /\ ArIdle /\ VhIdle /\ LmIdle

SpecAdapters == InitAdapters /\ [][AdNext]_vars

InitStreamlines ==
    StInit /\ BaseIdle /\ AniIdle /\ WinIdle /\ SbIdle /\ CmIdle /\ AdIdle /\ TbIdle /\ ArIdle /\ VhIdle /\ LmIdle

SpecStreamlines == InitStreamlines /\ [][StNext]_vars

InitTab ==
    TbInit /\ BaseIdle /\ AniIdle /\ WinIdle /\ SbIdle /\ CmIdle /\ AdIdle /\ StIdle /\ ArIdle /\ VhIdle /\ LmIdle

SpecTab == InitTab /\ [][TbNext]_vars

InitArtists ==
    ArInit /\ BaseIdle /\ AniIdle /\ WinIdle /\ SbIdle /\ CmIdle /\ AdIdle /\ StIdle /\ TbIdle /\ VhIdle /\ LmIdle

SpecArtists == InitArtists /\ [][ArNext]_vars

InitVehicle ==
    VhInit /\ BaseIdle /\ AniIdle /\ WinIdle /\ SbIdle /\ CmIdle /\ AdIdle /\ StIdle /\ TbIdle /\ ArIdle /\ LmIdle

SpecVehicle == InitVehicle /\ [][VhNext]_vars

InitLimits ==
    LmInit /\ BaseIdle /\ AniIdle /\ WinIdle /\ SbIdle /\ CmIdle /\ AdIdle /\ StIdle /\ TbIdle /\ ArIdle /\ VhIdle

SpecLimits == InitLimits /\ [][LmNext]_vars

====
